---- MODULE Spec2Model ----
(***************************************************************************)
(* Capitalism Tycoon: the daily simulation core (GameState::advance_day    *)
(* and the commands issued between ticks) together with the Factory, Loan, *)
(* Market and CompetitiveMarket objects it drives.                         *)
(*                                                                         *)
(* Numbers.  The program computes in f64.  The model computes in exact     *)
(* integer arithmetic:                                                     *)
(*   - money is counted in mills (1/1000 dollar), so $0.01 = 10;           *)
(*   - an annual interest rate is counted in half-percents (0.005);        *)
(*   - multipliers with one decimal are counted in tenths, store quality   *)
(*     in hundredths, a market power in thousandths;                       *)
(*   - a market share is an exact fraction <<num, den>>;                   *)
(*   - a conversion `as u32` is a floor (all operands are non-negative).   *)
(* Floating point rounding error is not modelled.                          *)
(***************************************************************************)
EXTENDS Integers, Naturals, Sequences, FiniteSets, TLC

-----------------------------------------------------------------------------
(* Generic helpers *)

Min(a, b) == IF a <= b THEN a ELSE b

Max(a, b) == IF a >= b THEN a ELSE b

\* floor(a * b / c) for a, b >= 0 and c > 0, without forming a * b when a is large
MulDiv(a, b, c) == (a \div c) * b + (((a % c) * b) \div c)

RECURSIVE GCD(_, _)
GCD(a, b) == IF b = 0 THEN a ELSE GCD(b, a % b)

\* the sequence s without its i-th element (Vec::remove)
RemoveAt(s, i) == [j \in 1..(Len(s) - 1) |-> IF j < i THEN s[j] ELSE s[j + 1]]

RECURSIVE SumSeq(_)
SumSeq(s) == IF s = <<>> THEN 0 ELSE Head(s) + SumSeq(Tail(s))

\* all enumerations (iteration orders) of a finite set
Perms(S) == {p \in [1..Cardinality(S) -> S] : \A i, j \in DOMAIN p : i # j => p[i] # p[j]}

Mill(dollars) == dollars * 1000

-----------------------------------------------------------------------------
(* Bounds of the model *)

\* largest quantity of one raw material delivered to a stand-alone factory
MaxRaw == 6

\* largest batch size requested from a stand-alone factory
MaxRequest == 6

-----------------------------------------------------------------------------
(* Catalog: the products and recipes of the game the model works with *)

\* Bread, T-Shirt, Lumber, Steel, Wooden Chair, Steel Table
ProductIds == {1, 8, 11, 12, 16, 17}

RawIds == {11, 12}

Products ==
  [p \in ProductIds |->
     CASE p = 1  -> [id |-> 1,  base_price |-> Mill(2),  category |-> "Food",        product_type |-> "RetailGood"]
       [] p = 8  -> [id |-> 8,  base_price |-> Mill(12), category |-> "Clothing",    product_type |-> "RetailGood"]
       [] p = 11 -> [id |-> 11, base_price |-> Mill(5),  category |-> "RawMaterial", product_type |-> "RawMaterial"]
       [] p = 12 -> [id |-> 12, base_price |-> Mill(8),  category |-> "RawMaterial", product_type |-> "RawMaterial"]
       [] p = 16 -> [id |-> 16, base_price |-> Mill(25), category |-> "Furniture",   product_type |-> "ManufacturedGood"]
       [] p = 17 -> [id |-> 17, base_price |-> Mill(60), category |-> "Furniture",   product_type |-> "ManufacturedGood"]]

\* Wooden Chair: 2 Lumber -> 1 Chair (1 day); Steel Table: 2 Steel + 1 Lumber -> 1 Table (2 days)
RecipeIds == {1, 2}

Recipes ==
  [r \in RecipeIds |->
     IF r = 1
     THEN [id |-> 1, ingredients |-> <<[product_id |-> 11, quantity |-> 2]>>,
           output_product_id |-> 16, output_quantity |-> 1, production_days |-> 1]
     ELSE [id |-> 2, ingredients |-> <<[product_id |-> 12, quantity |-> 2],
                                       [product_id |-> 11, quantity |-> 1]>>,
           output_product_id |-> 17, output_quantity |-> 1, production_days |-> 2]]

-----------------------------------------------------------------------------
(* Factory *)

MaxWorkers == 3

BaseSlots == 2

WorkerSalary == Mill(75)

FactoryRent == Mill(150)

\* a variant that adds a day to the work
ProductionJob_day_late(recipe) ==
  [recipe_id         |-> recipe.id,
   days_remaining    |-> recipe.production_days + 1,
   output_product_id |-> recipe.output_product_id,
   output_quantity   |-> recipe.output_quantity]

ProductionJob(recipe) ==
  [recipe_id         |-> recipe.id,
   days_remaining    |-> recipe.production_days,
   output_product_id |-> recipe.output_product_id,
   output_quantity   |-> recipe.output_quantity]

\* Factory::new; connected_stores and auto_transfer are the supply-chain fields
NewFactory(id) ==
  [id               |-> id,
   raw_materials    |-> [p \in ProductIds |-> 0],
   finished_goods   |-> [p \in ProductIds |-> 0],
   production_queue |-> <<>>,
   workers          |-> <<>>,
   daily_rent       |-> FactoryRent,
   connected_stores |-> {},
   auto_transfer    |-> FALSE]

production_slots(f) == BaseSlots + Len(f.workers)

active_jobs(f) == Len(f.production_queue)

\* saturating_sub
available_slots(f) == Max(production_slots(f) - active_jobs(f), 0)

add_raw_material(f, product_id, quantity) ==
  [f EXCEPT !.raw_materials[product_id] = @ + quantity]

get_raw_material(f, product_id) == f.raw_materials[product_id]

get_finished_good(f, product_id) == f.finished_goods[product_id]

has_ingredients(f, recipe) ==
  \A i \in DOMAIN recipe.ingredients :
     get_raw_material(f, recipe.ingredients[i].product_id) >= recipe.ingredients[i].quantity

\* the raw materials after one pass of the "consume raw materials" loop
RECURSIVE ConsumeIngredients(_, _)
ConsumeIngredients(raw, ings) ==
  IF ings = <<>> THEN raw
  ELSE ConsumeIngredients([raw EXCEPT ![Head(ings).product_id] = @ - Head(ings).quantity],
                          Tail(ings))

\* a variant that looks at the ingredients before the slots
start_production_materials_first(f, recipe) ==
  IF ~has_ingredients(f, recipe)
  THEN [factory |-> f, ok |-> FALSE, value |-> 0, err |-> "Insufficient raw materials"]
  ELSE IF available_slots(f) = 0
  THEN [factory |-> f, ok |-> FALSE, value |-> 0, err |-> "No available production slots"]
  ELSE [factory |-> [f EXCEPT !.raw_materials = ConsumeIngredients(@, recipe.ingredients),
                              !.production_queue = Append(@, ProductionJob(recipe))],
        ok |-> TRUE, value |-> 1, err |-> ""]

\* Result<(), String>: the factory afterwards, ok, and the error text
start_production(f, recipe) ==
  IF available_slots(f) = 0
  THEN [factory |-> f, ok |-> FALSE, value |-> 0, err |-> "No available production slots"]
  ELSE IF ~has_ingredients(f, recipe)
  THEN [factory |-> f, ok |-> FALSE, value |-> 0, err |-> "Insufficient raw materials"]
  ELSE [factory |-> [f EXCEPT !.raw_materials = ConsumeIngredients(@, recipe.ingredients),
                              !.production_queue = Append(@, ProductionJob(recipe))],
        ok |-> TRUE, value |-> 1, err |-> ""]

\* the queue after one day: [queue, finished_goods, completed]
RECURSIVE AdvanceJobs(_, _, _, _)
AdvanceJobs(jobs, still, goods, completed) ==
  IF jobs = <<>>
  THEN [queue |-> still, finished_goods |-> goods, completed |-> completed]
  ELSE LET job == [Head(jobs) EXCEPT !.days_remaining = @ - 1]
       IN  IF job.days_remaining = 0
           THEN AdvanceJobs(Tail(jobs), still,
                            [goods EXCEPT ![job.output_product_id] = @ + job.output_quantity],
                            Append(completed, [product_id |-> job.output_product_id,
                                               quantity   |-> job.output_quantity]))
           ELSE AdvanceJobs(Tail(jobs), Append(still, job), goods, completed)

advance_production(f) ==
  LET r == AdvanceJobs(f.production_queue, <<>>, f.finished_goods, <<>>)
  IN  [factory   |-> [f EXCEPT !.production_queue = r.queue,
                               !.finished_goods = r.finished_goods],
       completed |-> r.completed]

\* a variant that leaves one unit behind
take_finished_goods_short(f, product_id, quantity) ==
  LET available == get_finished_good(f, product_id)
      actual_quantity == Min(quantity, available - 1)
  IN  IF available = 0
      THEN [factory |-> f, ok |-> FALSE, value |-> 0, err |-> "No finished goods of this type"]
      ELSE [factory |-> [f EXCEPT !.finished_goods[product_id] = @ - actual_quantity],
            ok |-> TRUE, value |-> actual_quantity, err |-> ""]

take_finished_goods(f, product_id, quantity) ==
  LET available == get_finished_good(f, product_id)
      actual_quantity == Min(quantity, available)
  IN  IF available = 0
      THEN [factory |-> f, ok |-> FALSE, value |-> 0, err |-> "No finished goods of this type"]
      ELSE [factory |-> [f EXCEPT !.finished_goods[product_id] = @ - actual_quantity],
            ok |-> TRUE, value |-> actual_quantity, err |-> ""]

factory_daily_expenses(f) == f.daily_rent + SumSeq(f.workers)

hire_worker(f) ==
  IF Len(f.workers) >= MaxWorkers
  THEN [factory |-> f, ok |-> FALSE, err |-> "Maximum of 3 workers per factory"]
  ELSE [factory |-> [f EXCEPT !.workers = Append(@, WorkerSalary)], ok |-> TRUE, err |-> ""]

\* index counts from 0 as in the program
fire_worker(f, index) ==
  IF index >= Len(f.workers)
  THEN [factory |-> f, ok |-> FALSE, err |-> "Invalid worker index"]
  ELSE [factory |-> [f EXCEPT !.workers = RemoveAt(@, index + 1)], ok |-> TRUE, err |-> ""]

\* min over the ingredients of have / needed; 0 for a recipe without ingredients
RECURSIVE MaterialLimit(_, _, _)
MaterialLimit(f, ings, acc) ==
  IF ings = <<>> THEN acc
  ELSE LET n == get_raw_material(f, Head(ings).product_id) \div Head(ings).quantity
       IN  MaterialLimit(f, Tail(ings), IF acc = -1 THEN n ELSE Min(acc, n))

material_limit(f, recipe) ==
  IF recipe.ingredients = <<>> THEN 0 ELSE MaterialLimit(f, recipe.ingredients, -1)

\* a variant that forgets the slot limit
max_producible_no_slots(f, recipe) == material_limit(f, recipe)

max_producible(f, recipe) ==
  LET slot_limit == available_slots(f)
  IN  IF slot_limit = 0 THEN 0 ELSE Min(slot_limit, material_limit(f, recipe))

\* the "start each job" loop, n times
RECURSIVE StartJobs(_, _, _)
StartJobs(f, recipe, n) ==
  IF n = 0 THEN f
  ELSE StartJobs([f EXCEPT !.raw_materials = ConsumeIngredients(@, recipe.ingredients),
                           !.production_queue = Append(@, ProductionJob(recipe))],
                 recipe, n - 1)

start_production_batch(f, recipe, quantity) ==
  LET max_possible == max_producible(f, recipe)
      actual_quantity == Min(quantity, max_possible)
  IN  IF quantity = 0
      THEN [factory |-> f, ok |-> FALSE, value |-> 0, err |-> "Quantity must be greater than 0"]
      ELSE IF max_possible = 0
      THEN IF available_slots(f) = 0
           THEN [factory |-> f, ok |-> FALSE, value |-> 0, err |-> "No available production slots"]
           ELSE [factory |-> f, ok |-> FALSE, value |-> 0, err |-> "Insufficient raw materials"]
      ELSE [factory |-> StartJobs(f, recipe, actual_quantity),
            ok |-> TRUE, value |-> actual_quantity, err |-> ""]


-----------------------------------------------------------------------------
(* Loan *)

\* Loan::MIN_LOAN, MAX_LOAN, MAX_TOTAL_DEBT
MIN_LOAN == Mill(500)

MAX_LOAN == Mill(25000)

MAX_TOTAL_DEBT == Mill(50000)

\* balances below one cent count as paid off
PaidOffBelow == 10

\* days in a year, times the 200 half-percents that make 1.0
RateDivisor == 200 * 365

\* LoanType::rate_modifier, in half-percents
rate_modifier(loan_type) ==
  CASE loan_type = "Flexible"     -> 4
    [] loan_type = "LineOfCredit" -> 2
    [] loan_type = "TermLoan"     -> 0

\* Option<u32> is <<>> for None and <<n>> for Some(n)
new_flexible(id, amount, annual_rate) ==
  [id |-> id, loan_type |-> "Flexible", principal |-> amount, balance |-> amount,
   interest_rate |-> annual_rate, days_remaining |-> <<>>, daily_payment |-> 0]

new_line_of_credit(id, amount, annual_rate) ==
  [id |-> id, loan_type |-> "LineOfCredit", principal |-> amount, balance |-> amount,
   interest_rate |-> annual_rate, days_remaining |-> <<>>,
   daily_payment |-> Max((amount * 2) \div 100, Mill(10))]

new_term_loan(id, amount, annual_rate, days) ==
  [id |-> id, loan_type |-> "TermLoan", principal |-> amount, balance |-> amount,
   interest_rate |-> annual_rate, days_remaining |-> <<days>>, daily_payment |-> 0]

\* balance * daily_rate(), with daily_rate() = interest_rate / 365
daily_interest(l) == MulDiv(l.balance, l.interest_rate, RateDivisor)

accrue_interest(l) == [l EXCEPT !.balance = @ + daily_interest(l)]

\* a variant that does not cap the payment at the balance
make_payment_uncapped(l, amount) ==
  [loan |-> [l EXCEPT !.balance = @ - amount], paid |-> amount]

\* returns the loan afterwards and the amount actually paid
make_payment(l, amount) ==
  LET actual_payment == Min(amount, l.balance)
  IN  [loan |-> [l EXCEPT !.balance = @ - actual_payment], paid |-> actual_payment]

is_due(l) == l.days_remaining = <<0>>

is_due_soon(l) ==
  IF l.days_remaining # <<>> /\ l.days_remaining[1] > 0 /\ l.days_remaining[1] <= 3
  THEN l.days_remaining ELSE <<>>

decrement_days(l) ==
  IF l.days_remaining # <<>> /\ l.days_remaining[1] > 0
  THEN [l EXCEPT !.days_remaining = <<@[1] - 1>>]
  ELSE l

is_paid_off(l) == l.balance < PaidOffBelow

get_auto_payment_no_minimum(l) ==
  IF l.loan_type = "LineOfCredit"
  THEN Min((l.balance * 2) \div 100, l.balance)
  ELSE 0

get_auto_payment(l) ==
  IF l.loan_type = "LineOfCredit"
  THEN Min(Max((l.balance * 2) \div 100, Mill(10)), l.balance)
  ELSE 0

\* Loan::TERM_LOAN_PENALTY is 0.25
default_penalty(l) ==
  IF l.loan_type = "TermLoan" THEN l.balance \div 4 ELSE 0

-----------------------------------------------------------------------------
(* Store *)

StoreRent == Mill(100)

EmployeeSalary == Mill(50)

BaseCustomers == 50

MaxEmployees == 3

\* the inventory is a map: its domain is the set of products that have a line
NewStore(id) ==
  [id |-> id, inventory |-> <<>>, daily_customers |-> BaseCustomers,
   employees |-> <<>>, daily_rent |-> StoreRent]

InventoryItem(product_id, quantity, retail_price) ==
  [product_id |-> product_id, quantity |-> quantity, retail_price |-> retail_price]

\* HashMap::insert of a key that is not in the map
MapInsert(m, k, v) == [x \in (DOMAIN m) \cup {k} |-> IF x = k THEN v ELSE m[x]]

\* a variant that replaces an existing line instead of adding to it
add_inventory_overwrite(st, product_id, quantity, retail_price) ==
  [st EXCEPT !.inventory =
     MapInsert(st.inventory, product_id, InventoryItem(product_id, quantity, retail_price))]

\* a variant that prices an empty line anew when stock is added to it
add_inventory_repriced(st, product_id, quantity, retail_price) ==
  IF product_id \in DOMAIN st.inventory /\ st.inventory[product_id].quantity > 0
  THEN [st EXCEPT !.inventory[product_id].quantity = @ + quantity]
  ELSE [st EXCEPT !.inventory =
          MapInsert(@, product_id, InventoryItem(product_id, quantity, retail_price))]

add_inventory(st, product_id, quantity, retail_price) ==
  IF product_id \in DOMAIN st.inventory
  THEN [st EXCEPT !.inventory[product_id].quantity = @ + quantity]
  ELSE [st EXCEPT !.inventory =
          MapInsert(@, product_id, InventoryItem(product_id, quantity, retail_price))]

set_price(st, product_id, new_price) ==
  IF product_id \in DOMAIN st.inventory
  THEN [store |-> [st EXCEPT !.inventory[product_id].retail_price = new_price], ok |-> TRUE]
  ELSE [store |-> st, ok |-> FALSE]

\* Option<f64>: revenue is <<>> for None
sell(st, product_id, quantity) ==
  IF product_id \in DOMAIN st.inventory /\ Min(quantity, st.inventory[product_id].quantity) > 0
  THEN LET actual_quantity == Min(quantity, st.inventory[product_id].quantity)
       IN  [store   |-> [st EXCEPT !.inventory[product_id].quantity = @ - actual_quantity],
            revenue |-> <<st.inventory[product_id].retail_price * actual_quantity>>]
  ELSE [store |-> st, revenue |-> <<>>]

store_daily_expenses(st) == st.daily_rent + SumSeq(st.employees)

\* each employee adds 20% more customers
effective_customers(st) == (st.daily_customers * (10 + 2 * Len(st.employees))) \div 10

hire_employee(st) ==
  IF Len(st.employees) >= MaxEmployees
  THEN [store |-> st, ok |-> FALSE]
  ELSE [store |-> [st EXCEPT !.employees = Append(@, EmployeeSalary)], ok |-> TRUE]

fire_employee(st, index) ==
  IF index >= Len(st.employees)
  THEN [store |-> st, ok |-> FALSE]
  ELSE [store |-> [st EXCEPT !.employees = RemoveAt(@, index + 1)], ok |-> TRUE]

-----------------------------------------------------------------------------
(* Economy and Market *)

EconomicStates == <<"Collapse", "Recession", "Standard", "Growth", "Booming", "Prosperity">>

EconomicStateSet == {EconomicStates[i] : i \in DOMAIN EconomicStates}

Level(e) == CHOOSE i \in DOMAIN EconomicStates : EconomicStates[i] = e

\* base annual rate in half-percents: 15%, 10%, 6%, 5%, 4%, 3%
interest_rate(e) == <<30, 20, 12, 10, 8, 6>>[Level(e)]

\* in tenths
sales_multiplier(e) == <<5, 7, 10, 12, 14, 16>>[Level(e)]

\* in hundredths
price_multiplier(e) == <<80, 90, 100, 105, 110, 115>>[Level(e)]

\* Option<EconomicState>: <<>> for None
\* a variant that moves two levels up where there are two
transition_up_skipping(e) ==
  IF Level(e) = 6 THEN <<>> ELSE <<EconomicStates[Min(Level(e) + 2, 6)]>>

transition_up(e) == IF Level(e) = 6 THEN <<>> ELSE <<EconomicStates[Level(e) + 1]>>

transition_down(e) == IF Level(e) = 1 THEN <<>> ELSE <<EconomicStates[Level(e) - 1]>>

\* a variant in which raw materials find buyers like clothing does
category_demand_raw_retail(category) ==
  CASE category = "Food"        -> 12
    [] category = "Electronics" -> 8
    [] category = "Clothing"    -> 10
    [] category = "Furniture"   -> 6
    [] category = "RawMaterial" -> 10

\* category_demand in tenths; RawMaterial is 0
category_demand(category) ==
  CASE category = "Food"        -> 12
    [] category = "Electronics" -> 8
    [] category = "Clothing"    -> 10
    [] category = "Furniture"   -> 6
    [] category = "RawMaterial" -> 0

\* Market::new: the wholesale table holds every product at its base price
wholesale_prices == [p \in ProductIds |-> Products[p].base_price]

\* Option<f64>: <<>> when the product has no wholesale price
get_wholesale_price(e, product_id) ==
  IF product_id \in DOMAIN wholesale_prices
  THEN <<(wholesale_prices[product_id] * price_multiplier(e)) \div 100>>
  ELSE <<>>

suggest_retail_price(wholesale, markup_percent) == (wholesale * (100 + markup_percent)) \div 100

\* (day as f64 * 0.125).sin() in ten-thousandths, for day 1, 2, ...
SinTable ==
  <<1247, 2474, 3663, 4794, 5851, 6816, 7675, 8415, 9023, 9490, 9809, 9975,
    9985, 9840, 9541, 9093, 8503, 7781, 6937, 5985, 4939, 3817, 2634, 1411,
    166, -1082, -2313, -3508, -4648, -5716, -6694, -7568, -8324, -8950, -9436, -9775,
    -9962, -9993, -9868, -9589, -9161, -8589, -7884, -7055, -6117, -5083, -3969, -2794>>

seed_of_day(d) == d * 31337 + 42

\* in ten-thousandths: (seed * 48271 + 1) % 10000; the product does not wrap for these seeds
get_random_value(seed) == ((seed % 10000) * 8271 + 1) % 10000

\* x % 1000 for x = seed * 1103515245 + 12345; the variance is 0.8 + x / 1000 * 0.4
variance_draw(seed) == ((seed % 1000) * 245 + 345) % 1000

\* the economy after the roll of the day; chances are in millionths, the roll too
update_economy(e, d) ==
  LET trend       == SinTable[d]
      up_trend    == 40000 + (IF trend > 0 THEN 6 * trend ELSE 0)
      down_trend  == 40000 + (IF trend > 0 THEN 0 ELSE 6 * (-trend))
      up_chance   == CASE e = "Collapse"   -> up_trend + 100000
                       [] e = "Prosperity" -> 0
                       [] OTHER            -> up_trend
      down_chance == CASE e = "Collapse"   -> 0
                       [] e = "Prosperity" -> down_trend + 100000
                       [] OTHER            -> down_trend
      roll        == get_random_value(seed_of_day(d)) * 100
      new_state   == IF roll < up_chance
                     THEN (IF transition_up(e) # <<>> THEN transition_up(e)[1] ELSE e)
                     ELSE IF roll < up_chance + down_chance
                     THEN (IF transition_down(e) # <<>> THEN transition_down(e)[1] ELSE e)
                     ELSE e
  IN  [economic_state |-> new_state,
       economic_trend |-> trend,
       change         |-> IF new_state = e THEN <<>>
                          ELSE IF sales_multiplier(new_state) > sales_multiplier(e)
                          THEN <<"improved", new_state>> ELSE <<"worsened", new_state>>]

\* a variant without the final cap at the available quantity
calculate_sales_uncapped(product, retail_price, available_quantity, customer_count, e, seed) ==
  LET base_price == product.base_price
      raw_factor == 3 * base_price - retail_price
      factor_num == IF raw_factor < 0 THEN 0 ELSE Min(raw_factor, 4 * base_price)
      g          == GCD(factor_num, 2 * base_price)
      expected   == (customer_count * category_demand(product.category) * sales_multiplier(e)
                       * (factor_num \div g)) \div (1000 * ((2 * base_price) \div g))
  IN  (expected * (2000 + variance_draw(seed))) \div 2500

\* a variant that multiplies the expectation by the variance before it is cut to units
calculate_sales_unrounded(product, retail_price, available_quantity, customer_count, e, seed) ==
  LET base_price == product.base_price
      raw_factor == 3 * base_price - retail_price
      factor_num == IF raw_factor < 0 THEN 0 ELSE Min(raw_factor, 4 * base_price)
      g          == GCD(factor_num, 2 * base_price)
      adjusted   == (customer_count * category_demand(product.category) * sales_multiplier(e)
                       * (factor_num \div g) * (2000 + variance_draw(seed)))
                    \div (1000 * ((2 * base_price) \div g) * 2500)
  IN  Min(adjusted, available_quantity)

\* price_factor = clamp(1 - (retail - base) / base * 0.5, 0, 2) = factor_num / (2 * base);
\* expected_sales = (customers * 0.1 * category * economy * price_factor) as u32;
\* adjusted_sales = (expected_sales * variance) as u32, variance = (2000 + draw) / 2500
calculate_sales(product, retail_price, available_quantity, customer_count, e, seed) ==
  LET base_price == product.base_price
      raw_factor == 3 * base_price - retail_price
      factor_num == IF raw_factor < 0 THEN 0 ELSE Min(raw_factor, 4 * base_price)
      g          == GCD(factor_num, 2 * base_price)
      expected   == (customer_count * category_demand(product.category) * sales_multiplier(e)
                       * (factor_num \div g)) \div (1000 * ((2 * base_price) \div g))
      adjusted   == (expected * (2000 + variance_draw(seed))) \div 2500
  IN  Min(adjusted, available_quantity)

\* in half-percents
get_loan_rate(e, loan_type) == interest_rate(e) + rate_modifier(loan_type)

-----------------------------------------------------------------------------
(* Competitors *)

\* a fraction in lowest terms
Frac(n, d) == LET g == GCD(n, d) IN <<n \div g, d \div g>>

\* in tenths
attraction_multiplier(strategy) ==
  CASE strategy = "Aggressive" -> 13
    [] strategy = "Neutral"    -> 10
    [] strategy = "Premium"    -> 7

\* store_quality is in hundredths; base_share is <<power, total power>>
NewCompetitor(id, store_count, strategy) ==
  [id |-> id, store_count |-> store_count, store_quality |-> 100, strategy |-> strategy,
   cash |-> Mill(10000) + store_count * Mill(5000), base_share |-> <<0, 1>>,
   days_since_expansion |-> 0]

\* MegaMart, Quality Goods Co, ValueStore
default_competitors ==
  <<NewCompetitor(1, 3, "Aggressive"), NewCompetitor(2, 2, "Premium"),
    NewCompetitor(3, 2, "Neutral")>>

\* in thousandths
market_power(c) == c.store_count * c.store_quality * attraction_multiplier(c.strategy)

\* a variant that waits for the 14 days of an expansion before it switches
competitor_advance_day_late_switch(c, economic_multiplier, share) ==
  LET days          == c.days_since_expansion + 1
      daily_revenue == MulDiv(c.store_count * Mill(20) * economic_multiplier,
                              share[2] - share[1], share[2])
      cash          == c.cash + daily_revenue - c.store_count * Mill(150)
      c1            == [c EXCEPT !.days_since_expansion = days, !.cash = cash]
  IN  IF 5 * share[1] > 2 * share[2] /\ c.strategy # "Aggressive" /\ days > 14
      THEN [competitor |-> [c1 EXCEPT !.strategy = "Aggressive"],
            event      |-> <<"aggressive", c.id>>]
      ELSE IF cash > Mill(15000) /\ days > 14 /\ cash > Mill(20000)
      THEN [competitor |-> [c1 EXCEPT !.cash = @ - Mill(10000),
                                      !.store_count = @ + 1,
                                      !.days_since_expansion = 0],
            event      |-> <<"new store", c.id>>]
      ELSE IF days > 7 /\ c.store_quality < 150
      THEN [competitor |-> [c1 EXCEPT !.store_quality = @ + 1], event |-> <<>>]
      ELSE [competitor |-> c1, event |-> <<>>]

\* one day of one competitor: [competitor, event]; event is <<>> for None
competitor_advance_day(c, economic_multiplier, share) ==
  LET days          == c.days_since_expansion + 1
      daily_revenue == MulDiv(c.store_count * Mill(20) * economic_multiplier,
                              share[2] - share[1], share[2])
      cash          == c.cash + daily_revenue - c.store_count * Mill(150)
      c1            == [c EXCEPT !.days_since_expansion = days, !.cash = cash]
  IN  IF 5 * share[1] > 2 * share[2] /\ c.strategy # "Aggressive" /\ days > 10
      THEN [competitor |-> [c1 EXCEPT !.strategy = "Aggressive"],
            event      |-> <<"aggressive", c.id>>]
      ELSE IF cash > Mill(15000) /\ days > 14 /\ cash > Mill(20000)
      THEN [competitor |-> [c1 EXCEPT !.cash = @ - Mill(10000),
                                      !.store_count = @ + 1,
                                      !.days_since_expansion = 0],
            event      |-> <<"new store", c.id>>]
      ELSE IF days > 7 /\ c.store_quality < 150
      THEN [competitor |-> [c1 EXCEPT !.store_quality = @ + 1], event |-> <<>>]
      ELSE [competitor |-> c1, event |-> <<>>]

\* a variant in which every competitor that is not Aggressive answers
react_to_player_expansion_all(c) ==
  IF c.strategy # "Aggressive" /\ c.cash > Mill(5000)
  THEN [competitor |-> [c EXCEPT !.strategy = "Aggressive"], event |-> <<"responding", c.id>>]
  ELSE [competitor |-> c, event |-> <<>>]

react_to_player_expansion(c) ==
  IF c.strategy = "Neutral" /\ c.cash > Mill(5000)
  THEN [competitor |-> [c EXCEPT !.strategy = "Aggressive"], event |-> <<"responding", c.id>>]
  ELSE [competitor |-> c, event |-> <<>>]

\* the events of a sequence of per-competitor results, None dropped
RECURSIVE Events(_)
Events(rs) ==
  IF rs = <<>> THEN <<>>
  ELSE (IF Head(rs).event = <<>> THEN <<>> ELSE <<Head(rs).event>>) \o Events(Tail(rs))

\* CompetitiveMarket::advance_day
competitors_advance_day(cs, economic_multiplier, share) ==
  LET rs == [i \in DOMAIN cs |-> competitor_advance_day(cs[i], economic_multiplier, share)]
  IN  [competitors |-> [i \in DOMAIN cs |-> rs[i].competitor], events |-> Events(rs)]

notify_player_expansion(cs) ==
  LET rs == [i \in DOMAIN cs |-> react_to_player_expansion(cs[i])]
  IN  [competitors |-> [i \in DOMAIN cs |-> rs[i].competitor], events |-> Events(rs)]

\* the player's markup is in hundredths of a percent; the factor is in tenths
player_price_factor(player_avg_markup) ==
  IF player_avg_markup > 6000 THEN 7
  ELSE IF player_avg_markup < 3000 THEN 13
  ELSE 10

\* a variant that does not clamp the share
market_share_unclamped(cs, player_store_count, player_avg_markup) ==
  LET player_power == player_store_count * player_price_factor(player_avg_markup) * 100
      total_power  == player_power + SumSeq([i \in DOMAIN cs |-> market_power(cs[i])])
  IN  IF total_power > 0 THEN Frac(player_power, total_power) ELSE <<1, 2>>

\* the player_market_share that calculate_market_shares stores
market_share(cs, player_store_count, player_avg_markup) ==
  LET player_power == player_store_count * player_price_factor(player_avg_markup) * 100
      total_power  == player_power + SumSeq([i \in DOMAIN cs |-> market_power(cs[i])])
  IN  IF total_power > 0
      THEN IF 20 * player_power < total_power THEN <<1, 20>>
           ELSE IF 20 * player_power > 19 * total_power THEN <<19, 20>>
           ELSE Frac(player_power, total_power)
      ELSE <<1, 2>>

\* calculate_market_shares: [competitors with their base_share, player_market_share]
calculate_market_shares(cs, player_store_count, player_avg_markup) ==
  LET player_power == player_store_count * player_price_factor(player_avg_markup) * 100
      total_power  == player_power + SumSeq([i \in DOMAIN cs |-> market_power(cs[i])])
  IN  [competitors |-> [i \in DOMAIN cs |->
                          [cs[i] EXCEPT !.base_share = <<market_power(cs[i]), total_power>>]],
       player_market_share |-> market_share(cs, player_store_count, player_avg_markup)]

\* clamp(share * 2, 0.3, 1.5) as a fraction
player_customer_multiplier(share) ==
  IF 20 * share[1] < 3 * share[2] THEN <<3, 10>>
  ELSE IF 4 * share[1] > 3 * share[2] THEN <<3, 2>>
  ELSE Frac(2 * share[1], share[2])

-----------------------------------------------------------------------------
(* Stock, StockHolding and StockMarket.  A price is counted in cents, the    *)
(* price accumulator and a dividend in millionths of a dollar, a rate of     *)
(* change in millionths, a random factor in ten-thousandths                  *)

\* StockType::base_volatility, in percent
base_volatility(stock_type) ==
  CASE stock_type = "BlueChip"    -> 2
    [] stock_type = "Growth"      -> 5
    [] stock_type = "Speculative" -> 12

\* StockType::dividend_yield, in percent a year
dividend_yield(stock_type) ==
  CASE stock_type = "BlueChip"    -> 4
    [] stock_type = "Growth"      -> 1
    [] stock_type = "Speculative" -> 0

\* Stock::new
NewStock(id, stock_type, price) ==
  [id |-> id, stock_type |-> stock_type, price |-> price, base_price |-> price,
   price_history |-> <<price>>, price_accumulator |-> 0]

\* Stock::default_stocks: MEGA, SAFE, TECH, RETL, MOON, RISK
default_stocks ==
  <<NewStock(1, "BlueChip", 10000), NewStock(2, "BlueChip", 7500),
    NewStock(3, "Growth", 5000), NewStock(4, "Growth", 3500),
    NewStock(5, "Speculative", 1500), NewStock(6, "Speculative", 800)>>

\* the economic_trend of update_price, in millionths
stock_economic_trend(e) == <<-30000, -15000, 0, 10000, 20000, 25000>>[Level(e)]

\* f64::round of a / b for b > 0: half away from zero
RoundDiv(a, b) == IF a >= 0 THEN (2 * a + b) \div (2 * b) ELSE -((2 * (-a) + b) \div (2 * b))

\* the last 7 prices
PushHistory(history, price) ==
  IF Len(history) + 1 > 7 THEN Tail(Append(history, price)) ELSE Append(history, price)

\* a variant without the price floor
update_price_no_floor(s, e, random_factor) ==
  LET rate    == stock_economic_trend(e) + random_factor * base_volatility(s.stock_type)
                   + ((s.base_price - s.price) * 10000) \div s.base_price
      acc     == s.price_accumulator + MulDiv(s.price, rate, 100)
      flush   == acc >= 10000 \/ acc <= -10000
      change  == IF flush THEN RoundDiv(acc, 10000) ELSE 0
      price   == s.price + change
  IN  [stock  |-> [s EXCEPT !.price = price,
                            !.price_accumulator = acc - change * 10000,
                            !.price_history = PushHistory(@, price)],
       change |-> price - s.price]

\* Stock::update_price: [stock, change]
update_price(s, e, random_factor) ==
  LET rate    == stock_economic_trend(e) + random_factor * base_volatility(s.stock_type)
                   + ((s.base_price - s.price) * 10000) \div s.base_price
      acc     == s.price_accumulator + MulDiv(s.price, rate, 100)
      flush   == acc >= 10000 \/ acc <= -10000
      change  == IF flush THEN RoundDiv(acc, 10000) ELSE 0
      price   == Max(s.price + change, 50)
  IN  [stock  |-> [s EXCEPT !.price = price,
                            !.price_accumulator = acc - change * 10000,
                            !.price_history = PushHistory(@, price)],
       change |-> price - s.price]

\* a variant that pays the yield of a year every day
daily_dividend_annual(s) == s.price * dividend_yield(s.stock_type) * 100

\* Stock::daily_dividend, per share
daily_dividend(s) == (s.price * dividend_yield(s.stock_type) * 100) \div 365

\* StockHolding::new
NewStockHolding(stock_id, shares, price) ==
  [stock_id |-> stock_id, shares |-> shares, avg_purchase_price |-> price,
   total_dividends_earned |-> 0]

add_shares(h, shares, price) ==
  [h EXCEPT !.shares = @ + shares,
            !.avg_purchase_price = (@ * h.shares + price * shares) \div (h.shares + shares)]

receive_dividend(h, amount) == [h EXCEPT !.total_dividends_earned = @ + amount]

\* StockMarket::new; random_state is kept modulo 2^31, which decides the bits 16..30
\* that next_random reads of this and of every later state
NewStockMarket == [stocks |-> default_stocks, random_state |-> 12345]

\* state * 1103515245 + 12345 modulo 2^31, in 16-bit halves: 1103515245 = 16838 * 2^16 + 20077
next_random_state(state) ==
  LET lo == state % 65536
      hi == state \div 65536
      p  == lo * 20077 + 12345
  IN  ((p \div 65536 + hi * 20077 + lo * 16838) % 32768) * 65536 + (p % 65536)

\* StockMarket::next_random: the state afterwards and
\* ((state >> 16) & 0x7FFF) / 32767 * 2 - 1
next_random(state) ==
  [random_state |-> next_random_state(state),
   value        |-> (((next_random_state(state) \div 65536) % 32768) * 20000) \div 32767 - 10000]

\* "Generate random numbers first": n draws
RECURSIVE Randoms(_, _, _)
Randoms(state, n, drawn) ==
  IF n = 0 THEN [random_state |-> state, randoms |-> drawn]
  ELSE Randoms(next_random(state).random_state, n - 1,
               Append(drawn, next_random(state).value))

\* StockMarket::advance_day: [stock_market, changes], a change is
\* <<stock id, old price, new price, change>>
stock_advance_day(sm, e) ==
  LET draws == Randoms(sm.random_state, Len(sm.stocks), <<>>)
      ups   == [i \in DOMAIN sm.stocks |-> update_price(sm.stocks[i], e, draws.randoms[i])]
  IN  [stock_market |-> [stocks |-> [i \in DOMAIN sm.stocks |-> ups[i].stock],
                         random_state |-> draws.random_state],
       changes      |-> [i \in DOMAIN sm.stocks |->
                           <<sm.stocks[i].id, sm.stocks[i].price, ups[i].stock.price,
                             ups[i].change>>]]

-----------------------------------------------------------------------------
(* Player *)

StartingCash == Mill(1000)

NEW_STORE_COST == Mill(5000)

NEW_FACTORY_COST == Mill(10000)

\* Player::new(1000.0, "My First Store")
NewPlayer ==
  [cash |-> StartingCash, stores |-> <<NewStore(1)>>, factories |-> <<>>, loans |-> <<>>,
   portfolio |-> <<>>, next_store_id |-> 2, next_factory_id |-> 1, next_loan_id |-> 1]

\* a variant that takes the amount whatever the cash is
spend_on_credit(p, amount) == [player |-> [p EXCEPT !.cash = @ - amount], ok |-> TRUE]

spend(p, amount) ==
  IF p.cash >= amount
  THEN [player |-> [p EXCEPT !.cash = @ - amount], ok |-> TRUE]
  ELSE [player |-> p, ok |-> FALSE]

earn(p, amount) == [p EXCEPT !.cash = @ + amount]

add_store(p) ==
  [p EXCEPT !.stores = Append(@, NewStore(p.next_store_id)), !.next_store_id = @ + 1]

add_factory(p) ==
  [p EXCEPT !.factories = Append(@, NewFactory(p.next_factory_id)), !.next_factory_id = @ + 1]

total_daily_expenses(p) ==
  SumSeq([i \in DOMAIN p.stores |-> store_daily_expenses(p.stores[i])])
    + SumSeq([i \in DOMAIN p.factories |-> factory_daily_expenses(p.factories[i])])

total_debt(p) == SumSeq([i \in DOMAIN p.loans |-> p.loans[i].balance])

\* a variant that numbers a loan by its place in the ledger
add_loan_by_place(p, loan) ==
  [p EXCEPT !.loans = Append(@, [loan EXCEPT !.id = Len(p.loans) + 1]),
            !.next_loan_id = @ + 1,
            !.cash = @ + loan.principal]

add_loan(p, loan) ==
  [p EXCEPT !.loans = Append(@, [loan EXCEPT !.id = p.next_loan_id]),
            !.next_loan_id = @ + 1,
            !.cash = @ + loan.principal]

can_borrow(p, amount) == total_debt(p) + amount <= MAX_TOTAL_DEBT

\* index of the first loan with this id, 0 when there is none
loan_index(p, loan_id) ==
  IF \E i \in DOMAIN p.loans : p.loans[i].id = loan_id
  THEN CHOOSE i \in DOMAIN p.loans :
         /\ p.loans[i].id = loan_id
         /\ \A j \in DOMAIN p.loans : p.loans[j].id = loan_id => i <= j
  ELSE 0

\* Option<f64>: paid is <<>> when the loan does not exist
player_make_loan_payment(p, loan_id, amount) ==
  LET payment_amount == Min(amount, p.cash)
      i == loan_index(p, loan_id)
  IN  IF i = 0 THEN [player |-> p, paid |-> <<>>]
      ELSE LET r == make_payment(p.loans[i], payment_amount)
           IN  [player |-> [p EXCEPT !.loans[i] = r.loan, !.cash = @ - r.paid],
                paid   |-> <<r.paid>>]

\* a variant that also writes off the term loans whose term is over
cleanup_loans_written_off(p) ==
  [p EXCEPT !.loans = SelectSeq(@, LAMBDA l : ~is_paid_off(l) /\ ~is_due(l))]

cleanup_loans(p) == [p EXCEPT !.loans = SelectSeq(@, LAMBDA l : ~is_paid_off(l))]

-----------------------------------------------------------------------------
(* GameState::advance_day, as a function of the game and of the order in which *)
(* the hash maps hand out their keys                                            *)

\* (retail - base) / base * 100 in hundredths of a percent, summed over the lines of a store
RECURSIVE StoreMarkupTotal(_, _)
StoreMarkupTotal(st, keys) ==
  IF keys = {} THEN 0
  ELSE LET k == CHOOSE x \in keys : TRUE
           m == IF k \in ProductIds
                THEN MulDiv(st.inventory[k].retail_price - Products[k].base_price, 10000,
                            Products[k].base_price)
                ELSE 0
       IN  m + StoreMarkupTotal(st, keys \ {k})

StoreMarkupCount(st) == Cardinality((DOMAIN st.inventory) \cap ProductIds)

\* 50% when no store has an inventory line
calculate_average_markup(stores) ==
  LET total_markup == SumSeq([i \in DOMAIN stores |->
                                StoreMarkupTotal(stores[i], DOMAIN stores[i].inventory)])
      item_count   == SumSeq([i \in DOMAIN stores |-> StoreMarkupCount(stores[i])])
  IN  IF item_count > 0 THEN total_markup \div item_count ELSE 5000

\* the sales of one store, product after product in the given order;
\* acc is [store, cash, revenue, items, lines]
RECURSIVE SellProducts(_, _, _, _, _)
SellProducts(order, customer_count, e, seed, acc) ==
  IF order = <<>> THEN acc
  ELSE LET product_id == Head(order)
           item  == acc.store.inventory[product_id]
           sales == calculate_sales(Products[product_id], item.retail_price, item.quantity,
                                    customer_count, e, seed)
           sold  == sell(acc.store, product_id, sales)
       IN  IF product_id \in ProductIds /\ item.quantity > 0 /\ sales > 0 /\ sold.revenue # <<>>
           THEN SellProducts(Tail(order), customer_count, e, seed,
                  [store   |-> sold.store,
                   cash    |-> acc.cash + sold.revenue[1],
                   revenue |-> acc.revenue + sold.revenue[1],
                   items   |-> acc.items + sales,
                   lines   |-> Append(acc.lines, <<product_id, sales, sold.revenue[1]>>)])
           ELSE SellProducts(Tail(order), customer_count, e, seed, acc)

\* "process each store": acc is [stores, cash, revenue, items, lines, expenses, by_store]
RECURSIVE ProcessStores(_, _, _, _, _, _)
ProcessStores(idx, orders, customer_multiplier, e, seed, acc) ==
  IF idx > Len(acc.stores) THEN acc
  ELSE LET st   == acc.stores[idx]
           rent == st.daily_rent
           salaries == SumSeq(st.employees)
           customer_count == (effective_customers(st) * customer_multiplier[1])
                               \div customer_multiplier[2]
           r == SellProducts(orders[idx], customer_count, e, seed,
                             [store |-> st, cash |-> acc.cash, revenue |-> acc.revenue,
                              items |-> acc.items, lines |-> acc.lines])
       IN  ProcessStores(idx + 1, orders, customer_multiplier, e, seed,
             [stores   |-> [acc.stores EXCEPT ![idx] = r.store],
              cash     |-> r.cash,
              revenue  |-> r.revenue,
              items    |-> r.items,
              lines    |-> r.lines,
              expenses |-> acc.expenses + rent + salaries,
              by_store |-> Append(acc.by_store, <<st.id, rent, salaries>>)])

\* the store a factory ships to: the connected store with the lowest id, <<>> if none
primary_store(f) ==
  IF f.connected_stores = {} THEN <<>>
  ELSE <<CHOOSE x \in f.connected_stores : \A y \in f.connected_stores : x <= y>>

\* position of the store with this id, 0 when there is none
store_position(stores, store_id) ==
  IF \E i \in DOMAIN stores : stores[i].id = store_id
  THEN CHOOSE i \in DOMAIN stores :
         /\ stores[i].id = store_id
         /\ \A j \in DOMAIN stores : stores[j].id = store_id => i <= j
  ELSE 0

\* "transfer all finished goods" of one factory to the store at position sidx;
\* acc is [factory, stores, transfers]
RECURSIVE TransferGoods(_, _, _)
TransferGoods(order, sidx, acc) ==
  IF order = <<>> THEN acc
  ELSE LET product_id == Head(order)
           quantity   == get_finished_good(acc.factory, product_id)
           taken      == take_finished_goods(acc.factory, product_id, quantity)
           retail_price == suggest_retail_price(Products[product_id].base_price, 50)
       IN  IF quantity > 0 /\ product_id \in ProductIds /\ taken.ok
           THEN TransferGoods(Tail(order), sidx,
                  [factory   |-> taken.factory,
                   stores    |-> [acc.stores EXCEPT ![sidx] =
                                    add_inventory(@, product_id, taken.value, retail_price)],
                   transfers |-> Append(acc.transfers,
                                        <<acc.factory.id, acc.stores[sidx].id, product_id,
                                          taken.value>>)])
           ELSE TransferGoods(Tail(order), sidx, acc)

\* "process each factory": acc is [factories, stores, expenses, by_factory, completed, transfers]
RECURSIVE ProcessFactories(_, _, _)
ProcessFactories(idx, orders, acc) ==
  IF idx > Len(acc.factories) THEN acc
  ELSE LET f0   == acc.factories[idx]
           rent == f0.daily_rent
           salaries == SumSeq(f0.workers)
           adv  == advance_production(f0)
           f1   == adv.factory
           prim == primary_store(f1)
           sidx == IF prim = <<>> THEN 0 ELSE store_position(acc.stores, prim[1])
           tr   == IF f1.auto_transfer /\ f1.connected_stores # {} /\ sidx # 0
                   THEN TransferGoods(orders[idx], sidx,
                                      [factory |-> f1, stores |-> acc.stores, transfers |-> <<>>])
                   ELSE [factory |-> f1, stores |-> acc.stores, transfers |-> <<>>]
       IN  ProcessFactories(idx + 1, orders,
             [factories  |-> [acc.factories EXCEPT ![idx] = tr.factory],
              stores     |-> tr.stores,
              expenses   |-> acc.expenses + rent + salaries,
              by_factory |-> Append(acc.by_factory, <<f0.id, rent, salaries>>),
              completed  |-> acc.completed \o adv.completed,
              transfers  |-> acc.transfers \o tr.transfers])

\* "1. Accrue interest on all loans"
AccrueAll_twice(p) ==
  [p EXCEPT !.loans = [i \in DOMAIN p.loans |-> accrue_interest(accrue_interest(p.loans[i]))]]

AccrueAll(p) == [p EXCEPT !.loans = [i \in DOMAIN p.loans |-> accrue_interest(p.loans[i])]]

\* "2. Process auto-payments for line of credit loans"; acc is [player, payments]
RECURSIVE AutoPayments(_, _)
AutoPayments(loan_ids, acc) ==
  IF loan_ids = <<>> THEN acc
  ELSE LET loan_id == Head(loan_ids)
           i       == loan_index(acc.player, loan_id)
           auto_payment == get_auto_payment(acc.player.loans[i])
           available    == Max(acc.player.cash, 0)
           amount  == IF acc.player.cash >= auto_payment THEN auto_payment ELSE available
           r       == player_make_loan_payment(acc.player, loan_id, amount)
       IN  IF /\ i # 0
              /\ acc.player.loans[i].loan_type = "LineOfCredit"
              /\ auto_payment > 0
              /\ (acc.player.cash >= auto_payment \/ available > 0)
              /\ r.paid # <<>>
           THEN AutoPayments(Tail(loan_ids),
                             [player   |-> r.player,
                              payments |-> Append(acc.payments, <<loan_id, r.paid[1]>>)])
           ELSE AutoPayments(Tail(loan_ids), acc)

\* "3. Decrement days remaining on term loans"
DecrementTermLoans(p) ==
  [p EXCEPT !.loans = [i \in DOMAIN p.loans |->
                         IF p.loans[i].loan_type = "TermLoan"
                         THEN decrement_days(p.loans[i]) ELSE p.loans[i]]]

\* the (id, balance) pairs of the loans that are due
DueLoans(p) ==
  LET due == SelectSeq(p.loans, is_due)
  IN  [i \in DOMAIN due |-> <<due[i].id, due[i].balance>>]

\* a variant of the payment of one due loan that never adds the penalty
PayDueLoan_no_penalty(acc, loan_id, balance) ==
  IF acc.player.cash >= balance
  THEN [acc EXCEPT !.player = player_make_loan_payment(acc.player, loan_id, balance).player]
  ELSE LET available == Max(acc.player.cash, 0)
       IN  [acc EXCEPT !.player = IF available > 0
                                  THEN player_make_loan_payment(@, loan_id, available).player
                                  ELSE @]

\* a variant that pays first and takes the penalty on what is left
PayDueLoan_penalty_on_rest(acc, loan_id, balance) ==
  IF acc.player.cash >= balance
  THEN [acc EXCEPT !.player = player_make_loan_payment(acc.player, loan_id, balance).player]
  ELSE LET available == Max(acc.player.cash, 0)
           p1        == IF available > 0
                        THEN player_make_loan_payment(acc.player, loan_id, available).player
                        ELSE acc.player
           i1        == loan_index(p1, loan_id)
           penalty   == IF i1 = 0 THEN 0 ELSE default_penalty(p1.loans[i1])
       IN  [player    |-> IF i1 = 0 THEN p1
                          ELSE [p1 EXCEPT !.loans[i1].balance = @ + penalty],
            penalties |-> acc.penalties + penalty]

\* a variant that adds the penalty and takes no cash when the cash does not cover the loan
PayDueLoan_penalty_only(acc, loan_id, balance) ==
  IF acc.player.cash >= balance
  THEN [acc EXCEPT !.player = player_make_loan_payment(acc.player, loan_id, balance).player]
  ELSE LET i0      == loan_index(acc.player, loan_id)
           penalty == IF i0 = 0 THEN 0 ELSE default_penalty(acc.player.loans[i0])
       IN  [player    |-> IF i0 = 0 THEN acc.player
                          ELSE [acc.player EXCEPT !.loans[i0].balance = @ + penalty],
            penalties |-> acc.penalties + penalty]

\* the payment of one due loan: in full, or what there is plus the penalty on the balance
PayDueLoan(acc, loan_id, balance) ==
  IF acc.player.cash >= balance
  THEN [acc EXCEPT !.player = player_make_loan_payment(acc.player, loan_id, balance).player]
  ELSE LET i0        == loan_index(acc.player, loan_id)
           penalty   == IF i0 = 0 THEN 0 ELSE default_penalty(acc.player.loans[i0])
           available == Max(acc.player.cash, 0)
           p1        == IF available > 0
                        THEN player_make_loan_payment(acc.player, loan_id, available).player
                        ELSE acc.player
           i1        == loan_index(p1, loan_id)
       IN  [player    |-> IF i1 = 0 THEN p1
                          ELSE [p1 EXCEPT !.loans[i1].balance = @ + penalty],
            penalties |-> acc.penalties + penalty]

\* "4. Check for due term loans"; acc is [player, penalties]
RECURSIVE ProcessDueLoans(_, _)
ProcessDueLoans(due, acc) ==
  IF due = <<>> THEN acc
  ELSE ProcessDueLoans(Tail(due), PayDueLoan(acc, Head(due)[1], Head(due)[2]))

\* "5. Collect warnings for loans coming due soon"
DueSoonLoans(p) ==
  LET soon == SelectSeq(p.loans, LAMBDA l : is_due_soon(l) # <<>>)
  IN  [i \in DOMAIN soon |-> <<soon[i].id, soon[i].days_remaining[1], soon[i].balance>>]

\* a variant of the bankruptcy check that never sets the flag
bankrupt_after_never(was_bankrupt, cash) == was_bankrupt

\* a variant of the bankruptcy check that recomputes the flag from the cash of the day
bankrupt_after_recomputed(was_bankrupt, cash) == cash < 0

\* "Check for bankruptcy": the flag is set when cash is negative and is never cleared
bankrupt_after(was_bankrupt, cash) == was_bankrupt \/ cash < 0

\* the key orders the maps of this game can hand out during one day:
\* [stores, factories], one sequence of keys per store and per factory
RECURSIVE KeyOrders(_)
KeyOrders(keysets) ==
  IF keysets = <<>> THEN {<<>>}
  ELSE {<<o>> \o rest : o \in Perms(Head(keysets)), rest \in KeyOrders(Tail(keysets))}

GoodsKeys(f) == {x \in DOMAIN f.finished_goods : f.finished_goods[x] > 0}

TickOrders(p) ==
  [stores    : KeyOrders([i \in DOMAIN p.stores |-> DOMAIN p.stores[i].inventory]),
   factories : KeyOrders([i \in DOMAIN p.factories |->
                            GoodsKeys(advance_production(p.factories[i]).factory)])]

\* the DayResult and the game after the tick, once every step has been taken: m is the
\* market of the day, sold and made the outcome of the store and factory loops, p1 the
\* player after the accrual, auto after the auto-payments, due the loans found due,
\* paid the outcome of their payment
DayClosing(g, m, sold, made, p1, auto, due, paid) ==
  [game   |-> [g EXCEPT
                 !.day       = g.day + 1,
                 !.player    = cleanup_loans(paid.player),
                 !.market    = [economic_state |-> m.economic_state,
                                economic_trend |-> m.economic_trend,
                                day_seed       |-> m.seed],
                 !.competitive_market = [competitors |-> m.comp.competitors,
                                         player_market_share |-> m.player_market_share],
                 !.is_bankrupt = bankrupt_after(g.is_bankrupt, paid.player.cash)],
   result |-> [total_revenue         |-> sold.revenue,
               total_items_sold      |-> sold.items,
               sales_by_product      |-> sold.lines,
               total_expenses        |-> sold.expenses + made.expenses,
               expenses_by_store     |-> sold.by_store,
               expenses_by_factory   |-> made.by_factory,
               production_completed  |-> made.completed,
               net_profit            |-> sold.revenue - (sold.expenses + made.expenses)
                                           - (total_debt(p1) - total_debt(g.player)),
               economic_state        |-> m.economic_state,
               economic_change       |-> m.change,
               loan_interest_accrued |-> total_debt(p1) - total_debt(g.player),
               loan_payments         |-> auto.payments,
               loans_due             |-> due,
               loans_due_soon        |-> DueSoonLoans(paid.player),
               term_loan_penalties   |-> paid.penalties,
               auto_transfers        |-> made.transfers,
               competitor_events     |-> m.comp.events,
               player_market_share   |-> m.player_market_share]]

\* "4. Check for due term loans" on the player p3 whose term loans have been decremented
DayDue(g, m, sold, made, p1, auto, p3, due) ==
  DayClosing(g, m, sold, made, p1, auto, due,
             ProcessDueLoans(due, [player |-> p3, penalties |-> 0]))

\* steps 2 and 3 of the loan processing, on the player p1 whose loans have accrued
DayAutoPay(g, m, sold, made, p1, auto) ==
  DayDue(g, m, sold, made, p1, auto, DecrementTermLoans(auto.player),
         DueLoans(DecrementTermLoans(auto.player)))

DayAccrued(g, m, sold, made, p1) ==
  DayAutoPay(g, m, sold, made, p1,
             AutoPayments([i \in DOMAIN p1.loans |-> p1.loans[i].id],
                          [player |-> p1, payments |-> <<>>]))

\* "Deduct total expenses" after both loops, then "1. Accrue interest on all loans"
DayExpenses(g, m, sold, made) ==
  DayAccrued(g, m, sold, made,
             AccrueAll([g.player EXCEPT !.stores = made.stores,
                                        !.factories = made.factories,
                                        !.cash = sold.cash - (sold.expenses + made.expenses)]))

\* "Process each factory" on the stores the sales have left
DaySold(g, orders, m, sold) ==
  DayExpenses(g, m, sold,
              ProcessFactories(1, orders.factories,
                [factories |-> g.player.factories, stores |-> sold.stores,
                 expenses |-> 0, by_factory |-> <<>>, completed |-> <<>>,
                 transfers |-> <<>>]))

\* "Process each store" in the market m of the day
DayMarket(g, orders, m) ==
  DaySold(g, orders, m,
          ProcessStores(1, orders.stores, m.customer_multiplier, m.economic_state, m.seed,
            [stores |-> g.player.stores, cash |-> g.player.cash, revenue |-> 0,
             items |-> 0, lines |-> <<>>, expenses |-> 0, by_store |-> <<>>]))

\* the market of the day: the economy eco after its roll, the shares recalculated from the
\* stores and their markup, the customer multiplier and the competitors' day
\* a variant that takes the customer multiplier of the day after the competitors' update
MarketOfDay_after_update(g, eco, shares) ==
  [economic_state      |-> eco.economic_state,
   economic_trend      |-> eco.economic_trend,
   change              |-> eco.change,
   seed                |-> seed_of_day(g.day),
   player_market_share |-> shares.player_market_share,
   customer_multiplier |->
     player_customer_multiplier(
       market_share(competitors_advance_day(shares.competitors,
                                            sales_multiplier(eco.economic_state),
                                            shares.player_market_share).competitors,
                    Len(g.player.stores), calculate_average_markup(g.player.stores))),
   comp                |-> competitors_advance_day(shares.competitors,
                                                   sales_multiplier(eco.economic_state),
                                                   shares.player_market_share)]

MarketOfDay(g, eco, shares) ==
  [economic_state      |-> eco.economic_state,
   economic_trend      |-> eco.economic_trend,
   change              |-> eco.change,
   seed                |-> seed_of_day(g.day),
   player_market_share |-> shares.player_market_share,
   customer_multiplier |-> player_customer_multiplier(shares.player_market_share),
   comp                |-> competitors_advance_day(shares.competitors,
                                                   sales_multiplier(eco.economic_state),
                                                   shares.player_market_share)]

\* a variant that runs the factories, with their transfers, before the sales of the stores
DayShelvesAfter(g, m, sold, made) ==
  DayExpenses(g, m, sold, [made EXCEPT !.stores = sold.stores])

DayMadeFirst(g, orders, m, made) ==
  DayShelvesAfter(g, m,
                  ProcessStores(1, orders.stores, m.customer_multiplier, m.economic_state, m.seed,
                    [stores |-> made.stores, cash |-> g.player.cash, revenue |-> 0,
                     items |-> 0, lines |-> <<>>, expenses |-> 0, by_store |-> <<>>]),
                  made)

advance_day_transfers_first(g, orders) ==
  DayMadeFirst(g, orders,
               MarketOfDay(g, update_economy(g.market.economic_state, g.day),
                           calculate_market_shares(g.competitive_market.competitors,
                                                   Len(g.player.stores),
                                                   calculate_average_markup(g.player.stores))),
               ProcessFactories(1, orders.factories,
                 [factories |-> g.player.factories, stores |-> g.player.stores,
                  expenses |-> 0, by_factory |-> <<>>, completed |-> <<>>,
                  transfers |-> <<>>]))

\* GameState::advance_day: the game afterwards and the DayResult
advance_day(g, orders) ==
  DayMarket(g, orders,
            MarketOfDay(g, update_economy(g.market.economic_state, g.day),
                        calculate_market_shares(g.competitive_market.competitors,
                                                Len(g.player.stores),
                                                calculate_average_markup(g.player.stores))))

-----------------------------------------------------------------------------
(* GameState commands, as functions of the game.  g is                        *)
(* [day, player, market, competitive_market, current_store, current_factory,  *)
(* is_bankrupt]; a command returns the game afterwards and its Result         *)

\* GameState::new()
NewGame ==
  [day |-> 1,
   player |-> NewPlayer,
   market |-> [economic_state |-> "Standard", economic_trend |-> 0, day_seed |-> 12345],
   competitive_market |-> [competitors |-> default_competitors, player_market_share |-> <<3, 20>>],
   current_store |-> 0,
   current_factory |-> <<>>,
   is_bankrupt |-> FALSE]

Ok(g, value) == [game |-> g, ok |-> TRUE, value |-> value, err |-> ""]

Err(g, err) == [game |-> g, ok |-> FALSE, value |-> 0, err |-> err]

switch_store(g, index) ==
  IF index >= Len(g.player.stores) THEN Err(g, "Invalid store index")
  ELSE Ok([g EXCEPT !.current_store = index], 0)

\* the value is the list of competitor reactions
buy_new_store(g) ==
  IF g.player.cash < NEW_STORE_COST THEN Err(g, "Not enough cash")
  ELSE LET p1 == add_store(spend(g.player, NEW_STORE_COST).player)
           reactions == notify_player_expansion(g.competitive_market.competitors)
       IN  Ok([g EXCEPT !.player = p1,
                        !.competitive_market.competitors = reactions.competitors],
              reactions.events)

switch_factory(g, index) ==
  IF index >= Len(g.player.factories) THEN Err(g, "Invalid factory index")
  ELSE Ok([g EXCEPT !.current_factory = <<index>>], 0)

buy_new_factory(g) ==
  IF g.player.cash < NEW_FACTORY_COST THEN Err(g, "Not enough cash")
  ELSE LET p1 == add_factory(spend(g.player, NEW_FACTORY_COST).player)
       IN  Ok([g EXCEPT !.player = p1,
                        !.current_factory = IF @ = <<>> THEN <<0>> ELSE @],
              0)

buy_raw_materials(g, product_id, quantity) ==
  IF g.current_factory = <<>> THEN Err(g, "No factory selected")
  ELSE IF product_id \notin ProductIds THEN Err(g, "Product not found")
  ELSE IF Products[product_id].product_type # "RawMaterial"
  THEN Err(g, "This product is not a raw material")
  ELSE LET w == get_wholesale_price(g.market.economic_state, product_id)
       IN  IF w = <<>> THEN Err(g, "Wholesale price not found")
           ELSE LET total_cost == w[1] * quantity
                    paid == spend(g.player, total_cost)
                IN  IF ~paid.ok THEN Err(g, "Not enough cash")
                    ELSE Ok([g EXCEPT !.player =
                               [paid.player EXCEPT !.factories[g.current_factory[1] + 1] =
                                  add_raw_material(@, product_id, quantity)]],
                            total_cost)

\* a variant that stocks the store before it looks at the cash
buy_inventory_stock_first(g, product_id, quantity) ==
  IF product_id \notin ProductIds THEN Err(g, "Product not found")
  ELSE LET w == get_wholesale_price(g.market.economic_state, product_id)
       IN  IF w = <<>> THEN Err(g, "Wholesale price not found")
           ELSE LET total_cost == w[1] * quantity
                    suggested_retail == suggest_retail_price(w[1], 50)
                    g1 == [g EXCEPT !.player.stores[g.current_store + 1] =
                             add_inventory(@, product_id, quantity, suggested_retail)]
                    paid == spend(g1.player, total_cost)
                IN  IF ~paid.ok THEN Err(g1, "Not enough cash")
                    ELSE Ok([g1 EXCEPT !.player = paid.player], total_cost)

buy_inventory(g, product_id, quantity) ==
  IF product_id \notin ProductIds THEN Err(g, "Product not found")
  ELSE LET w == get_wholesale_price(g.market.economic_state, product_id)
       IN  IF w = <<>> THEN Err(g, "Wholesale price not found")
           ELSE LET total_cost == w[1] * quantity
                    paid == spend(g.player, total_cost)
                    suggested_retail == suggest_retail_price(w[1], 50)
                IN  IF ~paid.ok THEN Err(g, "Not enough cash")
                    ELSE Ok([g EXCEPT !.player =
                               [paid.player EXCEPT !.stores[g.current_store + 1] =
                                  add_inventory(@, product_id, quantity, suggested_retail)]],
                            total_cost)

set_retail_price(g, product_id, price) ==
  IF price <= 0 THEN Err(g, "Price must be positive")
  ELSE LET r == set_price(g.player.stores[g.current_store + 1], product_id, price)
       IN  IF r.ok THEN Ok([g EXCEPT !.player.stores[g.current_store + 1] = r.store], 0)
           ELSE Err(g, "Product not in inventory")

\* "" when the amount is within the limits
\* a variant that checks the single loan only, not the total debt
validate_loan_amount_single(g, amount) ==
  IF amount < MIN_LOAN THEN "Minimum loan"
  ELSE IF amount > MAX_LOAN THEN "Maximum single loan"
  ELSE ""

validate_loan_amount(g, amount) ==
  IF amount < MIN_LOAN THEN "Minimum loan"
  ELSE IF amount > MAX_LOAN THEN "Maximum single loan"
  ELSE IF ~can_borrow(g.player, amount) THEN "Would exceed maximum debt limit"
  ELSE ""

\* the value is the id of the new loan
take_flexible_loan(g, amount) ==
  IF validate_loan_amount(g, amount) # "" THEN Err(g, validate_loan_amount(g, amount))
  ELSE LET rate == get_loan_rate(g.market.economic_state, "Flexible")
       IN  Ok([g EXCEPT !.player = add_loan(@, new_flexible(0, amount, rate))],
              g.player.next_loan_id)

take_line_of_credit(g, amount) ==
  IF validate_loan_amount(g, amount) # "" THEN Err(g, validate_loan_amount(g, amount))
  ELSE LET rate == get_loan_rate(g.market.economic_state, "LineOfCredit")
       IN  Ok([g EXCEPT !.player = add_loan(@, new_line_of_credit(0, amount, rate))],
              g.player.next_loan_id)

\* the term discount: half a percent for 14 days, one percent for 30, never below 1%
take_term_loan(g, amount, days) ==
  IF validate_loan_amount(g, amount) # "" THEN Err(g, validate_loan_amount(g, amount))
  ELSE IF days \notin {7, 14, 30} THEN Err(g, "Term loan must be 7, 14, or 30 days")
  ELSE LET base_rate == get_loan_rate(g.market.economic_state, "TermLoan")
           rate == CASE days = 14 -> Max(base_rate - 1, 2)
                     [] days = 30 -> Max(base_rate - 2, 2)
                     [] OTHER     -> base_rate
       IN  Ok([g EXCEPT !.player = add_loan(@, new_term_loan(0, amount, rate, days))],
              g.player.next_loan_id)

\* a variant that does not compare the amount with the cash
make_loan_payment_beyond_cash(g, loan_id, amount) ==
  IF amount <= 0 THEN Err(g, "Payment amount must be positive")
  ELSE LET r == player_make_loan_payment(g.player, loan_id, amount)
       IN  IF r.paid = <<>> THEN Err(g, "Loan not found")
           ELSE Ok([g EXCEPT !.player = r.player], r.paid[1])

\* the value is the amount paid
make_loan_payment(g, loan_id, amount) ==
  IF amount <= 0 THEN Err(g, "Payment amount must be positive")
  ELSE IF g.player.cash < amount THEN Err(g, "Not enough cash")
  ELSE LET r == player_make_loan_payment(g.player, loan_id, amount)
       IN  IF r.paid = <<>> THEN Err(g, "Loan not found")
           ELSE Ok([g EXCEPT !.player = r.player], r.paid[1])

-----------------------------------------------------------------------------
(* State *)

VARIABLES
  day,                 \* GameState.day
  player,              \* GameState.player: cash, stores, factories, loans, id counters
  market,              \* GameState.market: economic state, trend and day seed
  competitive_market,  \* GameState.competitive_market: competitors and the player's share
  current_store,       \* GameState.current_store, an index from 0
  current_factory,     \* GameState.current_factory, <<>> or <<index from 0>>
  is_bankrupt,         \* GameState.is_bankrupt
  ret,                 \* the last command on the game and the Result it returned
  result,              \* the DayResult of the last advance_day, <<>> before the first
  taken,               \* the term loans taken: loan id -> [day, days, amount] of the command
  factory,             \* a stand-alone Factory
  fret,                \* the last call on it and what it returned
  loan,                \* a stand-alone Loan
  lret,                \* the last call on it and what it returned
  sale,                \* one line of a store on one day: the inputs and what was sold
  stock_market,        \* GameState.stock_market of the complete game: stocks, random state
  stock                \* a stand-alone Stock, the economy it is in and the last update_price on it

gameVars == <<day, player, market, competitive_market, current_store, current_factory,
              is_bankrupt, ret, result, taken>>

facVars == <<factory, fret>>

loanVars == <<loan, lret>>

vars == <<day, player, market, competitive_market, current_store, current_factory,
          is_bankrupt, ret, result, taken, factory, fret, loan, lret, sale, stock_market, stock>>

\* the game as one record
Game ==
  [day |-> day, player |-> player, market |-> market,
   competitive_market |-> competitive_market, current_store |-> current_store,
   current_factory |-> current_factory, is_bankrupt |-> is_bankrupt]

SetGame(g) ==
  /\ day' = g.day
  /\ player' = g.player
  /\ market' = g.market
  /\ competitive_market' = g.competitive_market
  /\ current_store' = g.current_store
  /\ current_factory' = g.current_factory
  /\ is_bankrupt' = g.is_bankrupt

NoCommand == [op |-> "new", ok |-> TRUE, value |-> 0, err |-> "", args |-> <<>>, events |-> <<>>]

NoCall == [op |-> "new", ok |-> TRUE, value |-> 0, err |-> "", recipe |-> 0, requested |-> 0]

NoLoanCall == [op |-> "new", amount |-> 0, paid |-> 0, calls |-> 0]

\* MEGA in a standard economy, before the first update_price
NoQuote == [stock |-> NewStock(1, "BlueChip", 10000), economic_state |-> "Standard",
            random_factor |-> 0, change |-> 0, calls |-> 0]

NoSale == [product_id |-> 1, retail_price |-> Mill(3), available |-> 0, customer_count |-> 0,
           economic_state |-> "Standard", day |-> 1, sales |-> 0, revenue |-> <<>>,
           remaining |-> 0, done |-> FALSE]

\* the state after GameState::new()
GameInit ==
  /\ day = NewGame.day
  /\ player = NewGame.player
  /\ market = NewGame.market
  /\ competitive_market = NewGame.competitive_market
  /\ current_store = NewGame.current_store
  /\ current_factory = NewGame.current_factory
  /\ is_bankrupt = NewGame.is_bankrupt
  /\ ret = NoCommand
  /\ result = <<>>
  /\ taken = <<>>

\* the stand-alone objects as their constructors leave them
ObjectsInit ==
  /\ factory = NewFactory(1)
  /\ fret = NoCall
  /\ loan = new_flexible(1, MIN_LOAN, 16)
  /\ lret = NoLoanCall
  /\ sale = NoSale
  /\ stock_market = NewStockMarket
  /\ stock = NoQuote

\* a new game, with one stand-alone factory, loan and sale line beside it
Init == GameInit /\ ObjectsInit

-----------------------------------------------------------------------------
(* A stand-alone factory driven through its public methods *)

\* production is advanced only while fewer finished goods than this are in storage
MaxGoods == 1

\* what a call on the stand-alone factory leaves alone
FactoryOnly == UNCHANGED <<gameVars, loanVars, sale, stock_market, stock>>

TotalGoods(f) == f.finished_goods[16] + f.finished_goods[17]

\* deliveries arrive while the factory is idle
FAddRawMaterial(p, q) ==
  /\ factory.raw_materials[p] + q <= MaxRaw
  /\ factory.production_queue = <<>>
  /\ TotalGoods(factory) = 0
  /\ factory' = add_raw_material(factory, p, q)
  /\ fret' = [NoCall EXCEPT !.op = "add_raw_material"]
  /\ FactoryOnly

FHireWorker ==
  LET r == hire_worker(factory)
  IN  /\ factory' = r.factory
      /\ fret' = [NoCall EXCEPT !.op = "hire_worker", !.ok = r.ok, !.err = r.err]
      /\ FactoryOnly

FFireWorker(index) ==
  LET r == fire_worker(factory, index)
  IN  /\ factory' = r.factory
      /\ fret' = [NoCall EXCEPT !.op = "fire_worker", !.ok = r.ok, !.err = r.err]
      /\ FactoryOnly

FStartProduction(rid) ==
  LET r == start_production(factory, Recipes[rid])
  IN  /\ factory' = r.factory
      /\ fret' = [op |-> "start_production", ok |-> r.ok, value |-> r.value, err |-> r.err,
                  recipe |-> rid, requested |-> 1]
      /\ FactoryOnly

FStartProductionBatch(rid, q) ==
  LET r == start_production_batch(factory, Recipes[rid], q)
  IN  /\ factory' = r.factory
      /\ fret' = [op |-> "start_production_batch", ok |-> r.ok, value |-> r.value, err |-> r.err,
                  recipe |-> rid, requested |-> q]
      /\ FactoryOnly

FAdvanceProduction ==
  LET r == advance_production(factory)
  IN  /\ TotalGoods(factory) < MaxGoods
      /\ factory' = r.factory
      /\ fret' = [NoCall EXCEPT !.op = "advance_production", !.value = Len(r.completed)]
      /\ FactoryOnly

FTakeFinishedGoods(p, q) ==
  LET r == take_finished_goods(factory, p, q)
  IN  /\ factory' = r.factory
      /\ fret' = [NoCall EXCEPT !.op = "take_finished_goods", !.ok = r.ok, !.value = r.value,
                                !.err = r.err]
      /\ FactoryOnly

FactoryNext ==
  \/ \E p \in RawIds, q \in {3} : FAddRawMaterial(p, q)
  \/ FHireWorker
  \/ \E i \in 0..MaxWorkers : FFireWorker(i)
  \/ \E rid \in RecipeIds : FStartProduction(rid)
  \/ \E rid \in RecipeIds, q \in {0, 2, MaxRequest} : FStartProductionBatch(rid, q)
  \/ FAdvanceProduction
  \/ \E p \in {16, 17}, q \in {BaseSlots + MaxWorkers} : FTakeFinishedGoods(p, q)

SpecFactory == Init /\ [][FactoryNext]_vars

-----------------------------------------------------------------------------
(* Claims about the stand-alone factory *)

\* C1: the number of queued production jobs never exceeds production_slots() = 2 + workers
C1_QueueWithinSlots ==
  Len(factory.production_queue) <= 2 + Len(factory.workers)

\* how much of product p one batch of the recipe needs
Needed(recipe, p) ==
  SumSeq([i \in DOMAIN recipe.ingredients |->
            IF recipe.ingredients[i].product_id = p THEN recipe.ingredients[i].quantity ELSE 0])

\* least element of a non-empty finite set of integers
Least(S) == CHOOSE m \in S : \A x \in S : m <= x

\* the number of jobs the claim expects a batch request to start in the current state
ExpectedBatch(recipe, requested) ==
  LET slots == 2 + Len(factory.workers)
      free  == IF slots >= Len(factory.production_queue)
               THEN slots - Len(factory.production_queue) ELSE 0
  IN  Least({requested, free} \cup
            {factory.raw_materials[recipe.ingredients[i].product_id]
               \div recipe.ingredients[i].quantity : i \in DOMAIN recipe.ingredients})

\* C9: start_production_batch(recipe, requested >= 1) starts exactly
\* actual = min(requested, free slots, min over ingredients of floor(have / needed)) jobs when
\* that is positive, returns actual, debits every ingredient by actual times its recipe
\* quantity and leaves no raw material below 0
C9_BatchStartsMin ==
  [][(fret'.op = "start_production_batch" /\ fret'.requested >= 1) =>
       LET recipe == Recipes[fret'.recipe]
           actual == ExpectedBatch(recipe, fret'.requested)
       IN  actual > 0 =>
             /\ fret'.ok
             /\ fret'.value = actual
             /\ Len(factory'.production_queue) = Len(factory.production_queue) + actual
             /\ \A i \in 1..Len(factory.production_queue) :
                   factory'.production_queue[i] = factory.production_queue[i]
             /\ \A i \in (Len(factory.production_queue) + 1)..Len(factory'.production_queue) :
                   /\ factory'.production_queue[i].recipe_id = recipe.id
                   /\ factory'.production_queue[i].days_remaining = recipe.production_days
             /\ \A p \in ProductIds :
                   /\ factory'.raw_materials[p] =
                        factory.raw_materials[p] - actual * Needed(recipe, p)
                   /\ factory'.raw_materials[p] >= 0
    ]_vars

\* a batch of several jobs was started and it was smaller than the request
C9_Witness ==
  /\ fret.op = "start_production_batch"
  /\ fret.ok
  /\ fret.value >= 2
  /\ fret.value < fret.requested

-----------------------------------------------------------------------------
(* The game driven through the commands of GameState, as the main loop does *)

\* ticks of the days of one store are taken while day <= MaxDay
MaxDay == 4

\* store inventory is bought only while the stores hold at most this many units together
MaxStock == 190

MaxStores == 2

MaxFactories == 1

\* employees over all stores
MaxStaff == 2

MaxLoans == 1

\* the main loop leaves at bankruptcy
GameRunning == ~is_bankrupt

\* what a command on the game leaves alone
GameOnly == UNCHANGED <<facVars, loanVars, sale, stock_market, stock>>

RECURSIVE SumQuantities(_, _)
SumQuantities(inventory, keys) ==
  IF keys = {} THEN 0
  ELSE LET k == CHOOSE x \in keys : TRUE
       IN  inventory[k].quantity + SumQuantities(inventory, keys \ {k})

TotalStock(p) ==
  SumSeq([i \in DOMAIN p.stores |->
            SumQuantities(p.stores[i].inventory, DOMAIN p.stores[i].inventory)])

TotalStaff(p) == SumSeq([i \in DOMAIN p.stores |-> Len(p.stores[i].employees)])

\* a method of GameState was called with outcome r: the game takes it
Called(op, args, r) ==
  /\ SetGame(r.game)
  /\ ret' = [op |-> op, ok |-> r.ok, value |-> IF op = "buy_new_store" THEN 0 ELSE r.value,
             err |-> r.err, args |-> args,
             events |-> IF op = "buy_new_store" /\ r.ok THEN r.value ELSE <<>>]
  /\ UNCHANGED result
  /\ GameOnly

\* the command r was issued from the menu of the main loop
Commanded(op, args, r) ==
  /\ GameRunning
  /\ Called(op, args, r)

BuyInventory(product_id, quantity) ==
  /\ TotalStock(player) <= MaxStock
  /\ Commanded("buy_inventory", <<product_id, quantity>>,
               buy_inventory(Game, product_id, quantity))
  /\ UNCHANGED taken

BuyRawMaterials(product_id, quantity) ==
  /\ current_factory # <<>> /\ product_id \in ProductIds =>
       player.factories[current_factory[1] + 1].raw_materials[product_id] <= MaxRaw
  /\ Commanded("buy_raw_materials", <<product_id, quantity>>,
               buy_raw_materials(Game, product_id, quantity))
  /\ UNCHANGED taken

BuyNewStore ==
  /\ Len(player.stores) < MaxStores
  /\ Commanded("buy_new_store", <<>>, buy_new_store(Game))
  /\ UNCHANGED taken

BuyNewFactory ==
  /\ Len(player.factories) < MaxFactories
  /\ Commanded("buy_new_factory", <<>>, buy_new_factory(Game))
  /\ UNCHANGED taken

SwitchStore(index) ==
  /\ Commanded("switch_store", <<index>>, switch_store(Game, index))
  /\ UNCHANGED taken

\* the staff menu hires for the current store
HireEmployee ==
  LET r == hire_employee(player.stores[current_store + 1])
  IN  /\ TotalStaff(player) < MaxStaff
      /\ Commanded("hire_employee", <<>>,
                   [game |-> [Game EXCEPT !.player.stores[current_store + 1] = r.store],
                    ok |-> r.ok, value |-> 0, err |-> ""])
      /\ UNCHANGED taken

TakeFlexibleLoan(amount) ==
  /\ player.next_loan_id <= MaxLoans
  /\ Commanded("take_flexible_loan", <<amount>>, take_flexible_loan(Game, amount))
  /\ UNCHANGED taken

\* the game takes the outcome r of advance_day
Ticked(r) ==
  /\ SetGame(r.game)
  /\ result' = r.result

\* GameState::advance_day is called; the maps hand out their keys in one of the orders
\* they can
Tick ==
  /\ day <= Len(SinTable)
  /\ \E orders \in TickOrders(player) : Ticked(advance_day(Game, orders))
  /\ ret' = [NoCommand EXCEPT !.op = "advance_day"]
  /\ UNCHANGED taken
  /\ GameOnly

\* one day passes in the main loop
AdvanceDay ==
  /\ GameRunning
  /\ Tick

\* the purchase and loan commands between two ticks
GameNext ==
  \/ \E product_id \in {1, 8, 11, 99} : BuyInventory(product_id, 190)
  \/ \E product_id \in {1, 11, 99}, quantity \in {4, 4000} : BuyRawMaterials(product_id, quantity)
  \/ BuyNewStore
  \/ BuyNewFactory
  \/ \E index \in 0..MaxStores : SwitchStore(index)
  \/ \E amount \in {Mill(50), Mill(25000)} : TakeFlexibleLoan(amount)

SpecGame == Init /\ [][GameNext]_vars

\* the days of one store: stocking, staffing, borrowing and the tick
DayNext ==
  \/ \E product_id \in {1, 8, 11} : BuyInventory(product_id, 190)
  \/ HireEmployee
  \/ TakeFlexibleLoan(Mill(25000))
  \/ day <= MaxDay /\ AdvanceDay

SpecDay == Init /\ [][DayNext]_vars

-----------------------------------------------------------------------------
(* Claims about the commands and the day of the game *)

\* the quantity a store holds of a product, 0 when it has no line for it
Held(st, product_id) ==
  IF product_id \in DOMAIN st.inventory THEN st.inventory[product_id].quantity ELSE 0

\* C2: every successful buy_inventory(product_id, q) at the current wholesale price w lowers
\* the player's cash by exactly q * w and raises the current store's quantity of the product
\* by exactly q, also when the store already holds the product
C2_BuyInventoryExact ==
  [][(ret'.op = "buy_inventory" /\ ret'.ok) =>
       LET product_id == ret'.args[1]
           q == ret'.args[2]
           w == (Products[product_id].base_price * price_multiplier(market.economic_state))
                  \div 100
       IN  /\ player'.cash = player.cash - q * w
           /\ Held(player'.stores[current_store + 1], product_id)
                = Held(player.stores[current_store + 1], product_id) + q
    ]_vars

\* a purchase of a product the current store already held has succeeded at a wholesale
\* price that is not the base price
C2_Witness ==
  /\ ret.op = "buy_inventory"
  /\ ret.ok
  /\ ret.args[2] > 0
  /\ Held(player.stores[current_store + 1], ret.args[1]) > ret.args[2]
  /\ price_multiplier(market.economic_state) # 100

\* C3: a purchase command that fails leaves the player's cash, every store inventory, every
\* factory ledger, the lists of stores and factories and the competitors as they were
C3_FailedPurchaseNoChange ==
  [][(/\ ret'.op \in {"buy_inventory", "buy_raw_materials", "buy_new_store", "buy_new_factory"}
      /\ ~ret'.ok) =>
       /\ player'.cash = player.cash
       /\ player'.stores = player.stores
       /\ player'.factories = player.factories
       /\ competitive_market'.competitors = competitive_market.competitors
    ]_vars

\* a purchase for a store that holds stock was refused for lack of cash
C3_Witness ==
  /\ ret.op = "buy_inventory"
  /\ ~ret.ok
  /\ ret.err = "Not enough cash"
  /\ TotalStock(player) > 0

\* C7: advance_day is a function of the game state: whatever order the hash maps hand out
\* their keys in, the DayResult and the successor state are the same
C7_AdvanceDayDeterministic ==
  \A o1, o2 \in TickOrders(player) : advance_day(Game, o1) = advance_day(Game, o2)

\* C10: when the player's cash is negative at the end of an advance_day the call has set
\* is_bankrupt; a day that starts with cash 50 and daily expenses 200 and brings no revenue
\* ends with negative cash and is_bankrupt set
C10_NegativeCashBankrupt ==
  [][(day' = day + 1) =>
       /\ player'.cash < 0 => is_bankrupt'
       /\ (/\ player.cash = Mill(50)
           /\ total_daily_expenses(player) = Mill(200)
           /\ result'.total_revenue = 0) => (player'.cash < 0 /\ is_bankrupt')
    ]_vars

\* the day that began with cash 50 and expenses 200 and sold nothing has passed
C10_Witness ==
  /\ ret.op = "advance_day"
  /\ result.total_revenue = 0
  /\ result.total_expenses = Mill(200)
  /\ player.cash = Mill(50) - Mill(200)
  /\ is_bankrupt

-----------------------------------------------------------------------------
(* A stand-alone loan driven through its methods *)

\* calls made on the stand-alone loan
MaxCalls == 4

LoanInit ==
  /\ GameInit
  /\ factory = NewFactory(1)
  /\ fret = NoCall
  /\ sale = NoSale
  /\ stock_market = NewStockMarket
  /\ stock = NoQuote
  /\ lret = NoLoanCall
  /\ \E amount \in {MIN_LOAN, Mill(1000)}, annual_rate \in {6, 34} :
       loan \in {new_flexible(1, amount, annual_rate + 4),
                 new_line_of_credit(1, amount, annual_rate + 2),
                 new_term_loan(1, amount, annual_rate, 7)}

\* what a call on the stand-alone loan leaves alone
LoanOnly == UNCHANGED <<gameVars, facVars, sale, stock_market, stock>>

LoanCalled(op, amount, paid) ==
  /\ lret.calls < MaxCalls
  /\ lret' = [op |-> op, amount |-> amount, paid |-> paid, calls |-> lret.calls + 1]
  /\ LoanOnly

LAccrueInterest ==
  /\ loan' = accrue_interest(loan)
  /\ LoanCalled("accrue_interest", 0, 0)

LMakePayment(amount) ==
  LET r == make_payment(loan, amount)
  IN  /\ loan' = r.loan
      /\ LoanCalled("make_payment", amount, r.paid)

\* the penalty of a missed term, added to the balance as advance_day does
LDefaultPenalty ==
  /\ loan' = [loan EXCEPT !.balance = @ + default_penalty(loan)]
  /\ LoanCalled("default_penalty", 0, 0)

LDecrementDays ==
  /\ loan' = decrement_days(loan)
  /\ LoanCalled("decrement_days", 0, 0)

LoanNext ==
  \/ LAccrueInterest
  \/ \E amount \in {0, Mill(100), loan.balance, loan.balance + 1, MAX_LOAN} : LMakePayment(amount)
  \/ LDefaultPenalty
  \/ LDecrementDays

SpecLoan == LoanInit /\ [][LoanNext]_vars

\* C4: for every payment amount >= 0 make_payment returns paid = min(amount, balance) and
\* lowers the balance by exactly paid; the balance is never negative, whatever accruals,
\* payments and penalties came before
C4_PaymentCapped ==
  [][/\ loan'.balance >= 0
     /\ (lret'.op = "make_payment" /\ lret'.amount >= 0) =>
          /\ lret'.paid = (IF lret'.amount <= loan.balance THEN lret'.amount ELSE loan.balance)
          /\ loan'.balance = loan.balance - lret'.paid
    ]_vars

\* a payment larger than a balance that had grown beyond the principal was capped
C4_Witness ==
  /\ lret.op = "make_payment"
  /\ lret.amount > lret.paid
  /\ lret.paid > loan.principal
  /\ loan.balance = 0

-----------------------------------------------------------------------------
(* The sale of one inventory line on one day *)

\* units in stock
MaxAvailable == 3

\* days from which the variance is drawn
MaxSaleDay == 3

SalesInit ==
  /\ GameInit
  /\ factory = NewFactory(1)
  /\ fret = NoCall
  /\ loan = new_flexible(1, MIN_LOAN, 16)
  /\ lret = NoLoanCall
  /\ stock_market = NewStockMarket
  /\ stock = NoQuote
  /\ \E product_id \in ProductIds, available \in 0..MaxAvailable, customer_count \in {0, 15, 120},
        economic_state \in EconomicStateSet, d \in 1..MaxSaleDay :
       \E retail_price \in {Products[product_id].base_price \div 2,
                            Products[product_id].base_price,
                            (3 * Products[product_id].base_price) \div 2,
                            3 * Products[product_id].base_price} :
         sale = [product_id |-> product_id, retail_price |-> retail_price,
                 available |-> available, customer_count |-> customer_count,
                 economic_state |-> economic_state, day |-> d,
                 sales |-> 0, revenue |-> <<>>, remaining |-> available, done |-> FALSE]

\* the step of advance_day for one product of one store: calculate_sales, then Store::sell
SellLine ==
  LET st    == add_inventory(NewStore(1), sale.product_id, sale.available, sale.retail_price)
      sales == calculate_sales(Products[sale.product_id], sale.retail_price, sale.available,
                               sale.customer_count, sale.economic_state, seed_of_day(sale.day))
      sold  == IF sale.available > 0 /\ sales > 0
               THEN sell(st, sale.product_id, sales)
               ELSE [store |-> st, revenue |-> <<>>]
  IN  /\ ~sale.done
      /\ sale' = [sale EXCEPT !.sales = sales, !.revenue = sold.revenue,
                              !.remaining = sold.store.inventory[sale.product_id].quantity,
                              !.done = TRUE]
      /\ UNCHANGED <<gameVars, facVars, loanVars, stock_market, stock>>

SalesNext == SellLine

SpecSales == SalesInit /\ [][SalesNext]_vars

\* C6: calculate_sales returns at most available_quantity, for every product, price,
\* customer count, economic state and day seed, and the sale leaves available minus sold
\* units in the store, never fewer than 0
C6_SalesWithinStock ==
  /\ calculate_sales(Products[sale.product_id], sale.retail_price, sale.available,
                     sale.customer_count, sale.economic_state, seed_of_day(sale.day))
       <= sale.available
  /\ sale.done =>
       /\ sale.sales <= sale.available
       /\ sale.remaining = sale.available - sale.sales
       /\ sale.remaining >= 0

\* the whole stock was sold on a day whose demand was larger than the stock
C6_Witness ==
  /\ sale.done
  /\ sale.available > 0
  /\ sale.sales = sale.available
  /\ sale.remaining = 0
  /\ calculate_sales(Products[sale.product_id], sale.retail_price, sale.available + 1,
                     sale.customer_count, sale.economic_state, seed_of_day(sale.day))
       > sale.available

-----------------------------------------------------------------------------
(* The competitive market driven through its methods *)

\* days a competitor spends without opening a store
MaxCompetitorDays == 15

\* the competitors' days are played until this many of their stores have opened
MaxNewStores == 1

\* what a call on the competitive market leaves alone
MarketOnly ==
  UNCHANGED <<day, player, market, current_store, current_factory, is_bankrupt, result, taken,
              facVars, loanVars, sale, stock_market, stock>>

CMCalculateMarketShares(player_store_count, player_avg_markup) ==
  /\ competitive_market' = calculate_market_shares(competitive_market.competitors,
                                                   player_store_count, player_avg_markup)
  /\ ret' = [NoCommand EXCEPT !.op = "calculate_market_shares",
                              !.args = <<player_store_count, player_avg_markup>>]
  /\ MarketOnly

\* the shares under which the competitors' days are played: the initial one and the upper end
PlayedShares == {<<3, 20>>, <<19, 20>>}

CMAdvanceDay(economic_multiplier) ==
  LET r == competitors_advance_day(competitive_market.competitors, economic_multiplier,
                                   competitive_market.player_market_share)
  IN  /\ competitive_market.player_market_share \in PlayedShares
      /\ \A i \in DOMAIN competitive_market.competitors :
            competitive_market.competitors[i].days_since_expansion < MaxCompetitorDays
      /\ SumSeq([i \in DOMAIN competitive_market.competitors |->
                   competitive_market.competitors[i].store_count])
           < SumSeq([i \in DOMAIN default_competitors |-> default_competitors[i].store_count])
               + MaxNewStores
      /\ competitive_market' = [competitive_market EXCEPT !.competitors = r.competitors]
      /\ ret' = [NoCommand EXCEPT !.op = "competitors_advance_day",
                                  !.args = <<economic_multiplier>>, !.events = r.events]
      /\ MarketOnly

CMNotifyPlayerExpansion ==
  LET r == notify_player_expansion(competitive_market.competitors)
  IN  /\ competitive_market' = [competitive_market EXCEPT !.competitors = r.competitors]
      /\ ret' = [NoCommand EXCEPT !.op = "notify_player_expansion", !.events = r.events]
      /\ MarketOnly

SharesNext ==
  \/ \E n \in {0, 1, 6, 200}, markup \in {0, 5000, 7000} : CMCalculateMarketShares(n, markup)
  \/ \E economic_multiplier \in {16} : CMAdvanceDay(economic_multiplier)
  \/ CMNotifyPlayerExpansion

SpecShares == Init /\ [][SharesNext]_vars

\* C5: after every call of calculate_market_shares, whatever the player's store count and
\* average markup and whatever state the competitors are in, 0.05 <= player_market_share <= 0.95
C5_ShareClamped ==
  ret.op = "calculate_market_shares" =>
    /\ 20 * competitive_market.player_market_share[1] >= competitive_market.player_market_share[2]
    /\ 20 * competitive_market.player_market_share[1]
         <= 19 * competitive_market.player_market_share[2]

\* the share of a player without stores was raised to 0.05 after the competitors had grown
C5_Witness ==
  /\ ret.op = "calculate_market_shares"
  /\ ret.args[1] = 0
  /\ competitive_market.player_market_share = <<1, 20>>
  /\ \E i \in DOMAIN competitive_market.competitors :
       competitive_market.competitors[i].store_quality > 100

-----------------------------------------------------------------------------
(* The loan ledger of the game over a month *)

\* ticks of the ledger run are taken while day <= LedgerDays
LedgerDays == 32

\* term loans are taken and staff is hired while day <= LastCommandDay
LastCommandDay == 2

\* term loans taken in a ledger run
LedgerLoans == 1

\* a term loan is paid by hand only in the last PayWindow days of its term
PayWindow == 1

TakeTermLoan(amount, days) ==
  LET r == take_term_loan(Game, amount, days)
  IN  /\ day <= LastCommandDay
      /\ player.next_loan_id <= LedgerLoans
      /\ Commanded("take_term_loan", <<amount, days>>, r)
      /\ taken' = IF r.ok
                  THEN MapInsert(taken, r.value, [day |-> day, days |-> days, amount |-> amount])
                  ELSE taken

MakeLoanPayment(loan_id, amount) ==
  /\ \A i \in DOMAIN player.loans :
       (player.loans[i].id = loan_id /\ player.loans[i].days_remaining # <<>>) =>
         player.loans[i].days_remaining[1] <= PayWindow
  /\ Commanded("make_loan_payment", <<loan_id, amount>>, make_loan_payment(Game, loan_id, amount))
  /\ UNCHANGED taken

LedgerNext ==
  \/ \E amount \in {Mill(50), Mill(1000), Mill(5000)}, days \in {7, 10, 14, 30} :
       TakeTermLoan(amount, days)
  \/ \E loan_id \in 1..(LedgerLoans + 1), amount \in {0, player.cash} :
       MakeLoanPayment(loan_id, amount)
  \/ day <= LastCommandDay /\ HireEmployee
  \/ day <= LedgerDays /\ AdvanceDay

SpecLedger == Init /\ [][LedgerNext]_vars

\* the ids in a loans_due list
DueIds(loans_due) == {loans_due[i][1] : i \in DOMAIN loans_due}

\* the balance a loans_due list reports for a loan
DueBalance(loans_due, id) ==
  loans_due[CHOOSE i \in DOMAIN loans_due : loans_due[i][1] = id][2]

Listed(loans, id) == \E i \in DOMAIN loans : loans[i].id = id

BalanceOf(loans, id) == loans[CHOOSE i \in DOMAIN loans : loans[i].id = id].balance

\* the player's cash when the due loans of a day are processed: after the sales, the
\* expenses and the automatic payments of that day
CashAtDue(cash_before, res) ==
  cash_before + res.total_revenue - res.total_expenses
    - SumSeq([i \in DOMAIN res.loan_payments |-> res.loan_payments[i][2]])

\* the day on which the n-th advance_day after the loan was taken runs
DueDay(t) == t.day + t.days - 1

\* the statement as first made: a term loan of n days is in loans_due on no tick before the
\* n-th after it was taken and, if still in the ledger, on the n-th; when the player has no
\* cash on that tick the loan stays in the ledger with its balance raised by the 25% penalty
C8_AsStated ==
  [][(day' = day + 1) =>
       \A id \in DOMAIN taken :
         /\ day < DueDay(taken[id]) => id \notin DueIds(result'.loans_due)
         /\ (day = DueDay(taken[id]) /\ Listed(player.loans, id)) =>
              /\ id \in DueIds(result'.loans_due)
              /\ CashAtDue(player.cash, result') <= 0 =>
                   /\ Listed(player'.loans, id)
                   /\ BalanceOf(player'.loans, id) =
                        DueBalance(result'.loans_due, id)
                          + DueBalance(result'.loans_due, id) \div 4
    ]_vars

\* C8: a term loan of n days (7, 14 or 30) is in loans_due on no tick before the n-th
\* advance_day after it was taken and, if still in the ledger, on the n-th; when the player
\* has no cash on that tick and the loan then owes at least one cent, the loan stays in the
\* ledger with its balance raised by the 25% penalty
C8_DueOnNthTick ==
  [][(day' = day + 1) =>
       \A id \in DOMAIN taken :
         /\ taken[id].days \in {7, 14, 30}
         /\ day < DueDay(taken[id]) => id \notin DueIds(result'.loans_due)
         /\ (day = DueDay(taken[id]) /\ Listed(player.loans, id)) =>
              /\ id \in DueIds(result'.loans_due)
              /\ (/\ CashAtDue(player.cash, result') <= 0
                  /\ DueBalance(result'.loans_due, id) >= PaidOffBelow) =>
                   /\ Listed(player'.loans, id)
                   /\ BalanceOf(player'.loans, id) =
                        DueBalance(result'.loans_due, id)
                          + DueBalance(result'.loans_due, id) \div 4
    ]_vars

\* the n-th day after a term loan was taken has passed with the player out of cash: the loan
\* was due, is still in the ledger and owes the penalty on top
C8_Witness ==
  /\ ret.op = "advance_day"
  /\ player.cash < 0
  /\ \E id \in DOMAIN taken :
       /\ day - 1 = DueDay(taken[id])
       /\ id \in DueIds(result.loans_due)
       /\ DueBalance(result.loans_due, id) >= Mill(100)
       /\ Listed(player.loans, id)
       /\ BalanceOf(player.loans, id) =
            DueBalance(result.loans_due, id) + DueBalance(result.loans_due, id) \div 4
       /\ result.term_loan_penalties = DueBalance(result.loans_due, id) \div 4

-----------------------------------------------------------------------------
(* GameState called directly, also after bankruptcy: the methods themselves *)
(* do not look at is_bankrupt                                               *)

\* ticks of a run of direct calls are taken while day <= CallDays
CallDays == 2

CallBuyInventory(product_id, quantity) ==
  /\ TotalStock(player) <= MaxStock
  /\ Called("buy_inventory", <<product_id, quantity>>,
            buy_inventory(Game, product_id, quantity))
  /\ UNCHANGED taken

CallHireEmployee ==
  /\ TotalStaff(player) < MaxStaff
  /\ Called("hire_employee", <<>>,
            [game |-> [Game EXCEPT !.player.stores[current_store + 1] =
                                     hire_employee(player.stores[current_store + 1]).store],
             ok |-> hire_employee(player.stores[current_store + 1]).ok,
             value |-> 0, err |-> ""])
  /\ UNCHANGED taken

CallTakeFlexibleLoan(amount) ==
  /\ player.next_loan_id <= MaxLoans
  /\ Called("take_flexible_loan", <<amount>>, take_flexible_loan(Game, amount))
  /\ UNCHANGED taken

CallsNext ==
  \/ \E product_id \in {1, 11} : CallBuyInventory(product_id, 190)
  \/ CallHireEmployee
  \/ CallTakeFlexibleLoan(Mill(25000))
  \/ day <= CallDays /\ Tick

SpecCalls == Init /\ [][CallsNext]_vars

\* C11: is_bankrupt is sticky: once true it is true after every later command and every
\* later advance_day, also when a loan or sales have brought the cash back to 0 or more
C11_BankruptSticky == [][is_bankrupt => is_bankrupt']_vars

\* a day has passed after a loan brought the cash of a bankrupt player back above 0, and
\* the flag is still set
C11_Witness ==
  /\ is_bankrupt
  /\ ret.op = "advance_day"
  /\ player.cash >= 0
  /\ player.loans # <<>>
  /\ result.total_expenses > 0

-----------------------------------------------------------------------------
(* Borrowing: the three loan commands against the limits *)

\* loans are requested while the ledger has issued fewer than MaxLedger loan ids
MaxLedger == 3

\* ticks of a borrowing run are taken while day <= BorrowDays
BorrowDays == 1

BorrowFlexible(amount) ==
  /\ player.next_loan_id <= MaxLedger
  /\ Commanded("take_flexible_loan", <<amount>>, take_flexible_loan(Game, amount))
  /\ UNCHANGED taken

BorrowLineOfCredit(amount) ==
  /\ player.next_loan_id <= MaxLedger
  /\ Commanded("take_line_of_credit", <<amount>>, take_line_of_credit(Game, amount))
  /\ UNCHANGED taken

BorrowTerm(amount, days) ==
  /\ player.next_loan_id <= MaxLedger
  /\ Commanded("take_term_loan", <<amount, days>>, take_term_loan(Game, amount, days))
  /\ UNCHANGED taken

\* one mill below the minimum, the minimum, the maximum, one mill above the maximum
RequestedAmounts == {MIN_LOAN - 1, MIN_LOAN, MAX_LOAN, MAX_LOAN + 1}

BorrowNext ==
  \/ \E amount \in RequestedAmounts : BorrowFlexible(amount)
  \/ \E amount \in RequestedAmounts : BorrowLineOfCredit(amount)
  \/ \E amount \in RequestedAmounts, days \in {7, 10, 14, 30} : BorrowTerm(amount, days)
  \/ day <= BorrowDays /\ AdvanceDay

SpecBorrow == Init /\ [][BorrowNext]_vars

LoanCommands == {"take_flexible_loan", "take_line_of_credit", "take_term_loan"}

\* the limits the claim names, for a request of this amount by this player
WithinLimits(p, amount) ==
  /\ amount >= Mill(500)
  /\ amount <= Mill(25000)
  /\ SumSeq([i \in DOMAIN p.loans |-> p.loans[i].balance]) + amount <= Mill(50000)

\* C12: a loan command succeeds only if 500 <= amount <= 25000 and the outstanding balance
\* plus the amount is at most 50000 (and, for a term loan, days is 7, 14 or 30); a rejected
\* request leaves the cash, the loan ledger and the loan id counter unchanged
C12_BorrowingLimits ==
  [][(ret'.op \in LoanCommands) =>
       /\ ret'.ok =>
            /\ WithinLimits(player, ret'.args[1])
            /\ ret'.op = "take_term_loan" => ret'.args[2] \in {7, 14, 30}
       /\ ~ret'.ok =>
            /\ player'.cash = player.cash
            /\ player'.loans = player.loans
            /\ player'.next_loan_id = player.next_loan_id
    ]_vars

\* a request within the limits of a single loan was rejected because the balance
\* outstanding, interest of a day included, leaves less room than the amount
C12_Witness ==
  /\ ret.op \in LoanCommands
  /\ ~ret.ok
  /\ ret.args[1] = MAX_LOAN
  /\ Len(player.loans) = 1
  /\ player.loans[1].principal = MAX_LOAN
  /\ player.loans[1].balance > MAX_LOAN

-----------------------------------------------------------------------------
(* Claims about the due loans of a day *)

\* what the payment of a due loan of this balance takes from this cash
DuePayment(cash, balance) == IF cash >= balance THEN balance ELSE Max(cash, 0)

\* the player's cash when the k-th loan of a loans_due list is processed, from the cash
\* when the first one is
RECURSIVE CashBeforeDue(_, _, _)
CashBeforeDue(loans_due, k, cash) ==
  IF k = 1 THEN cash
  ELSE CashBeforeDue(loans_due, k - 1, cash)
         - DuePayment(CashBeforeDue(loans_due, k - 1, cash), loans_due[k - 1][2])

\* the statement as first made: when a term loan comes due and the cash is less than its
\* balance, the player pays the non-negative cash there is, the penalty added is 25% of the
\* balance remaining after that payment, and the loan stays in the ledger
C13_AsStated ==
  [][(day' = day + 1) =>
       \A k \in DOMAIN result'.loans_due :
         LET id        == result'.loans_due[k][1]
             balance   == result'.loans_due[k][2]
             cash      == CashBeforeDue(result'.loans_due, k, CashAtDue(player.cash, result'))
             remaining == balance - Max(cash, 0)
         IN  cash < balance =>
               /\ Listed(player'.loans, id)
               /\ BalanceOf(player'.loans, id) = remaining + remaining \div 4
    ]_vars

\* C13: when a term loan comes due and the cash is less than its balance, the player pays
\* the non-negative cash there is and the penalty added is 25% of the balance the loan had
\* before that payment; the loan stays in the ledger unless it then owes less than a cent
C13_PenaltyOnDueBalance ==
  [][(day' = day + 1) =>
       \A k \in DOMAIN result'.loans_due :
         LET id      == result'.loans_due[k][1]
             balance == result'.loans_due[k][2]
             cash    == CashBeforeDue(result'.loans_due, k, CashAtDue(player.cash, result'))
             owed    == balance - Max(cash, 0) + balance \div 4
         IN  cash < balance =>
               /\ owed >= PaidOffBelow =>
                    /\ Listed(player'.loans, id)
                    /\ BalanceOf(player'.loans, id) = owed
               /\ owed < PaidOffBelow => ~Listed(player'.loans, id)
               /\ Len(result'.loans_due) = 1 => result'.term_loan_penalties = balance \div 4
    ]_vars

\* a term loan came due on a day on which the player could pay a part of it: the part was
\* paid and the penalty on the whole balance was added
C13_Witness ==
  /\ ret.op = "advance_day"
  /\ Len(result.loans_due) = 1
  /\ player.cash = 0
  /\ result.term_loan_penalties = result.loans_due[1][2] \div 4
  /\ result.term_loan_penalties > 0
  /\ Listed(player.loans, result.loans_due[1][1])
  /\ BalanceOf(player.loans, result.loans_due[1][1])
       < result.loans_due[1][2] + result.term_loan_penalties

-----------------------------------------------------------------------------
(* Lines of credit: the automatic payment of the day *)

\* lines of credit are taken while the ledger has issued at most CreditLines loan ids
CreditLines == 2

\* ticks of a credit run are taken while day <= CreditDays
CreditDays == 2

TakeLineOfCredit(amount) ==
  /\ player.next_loan_id <= CreditLines
  /\ Commanded("take_line_of_credit", <<amount>>, take_line_of_credit(Game, amount))
  /\ UNCHANGED taken

\* lumber does not sell in a store: 190 leaves the cash for the payment of the day, 278
\* leaves a part of it, 280 leaves nothing and 290 less than the rent
CreditNext ==
  \/ \E amount \in {MIN_LOAN, MAX_LOAN} : TakeLineOfCredit(amount)
  \/ \E quantity \in {190, 278, 280, 290} : BuyInventory(11, quantity)
  \/ day <= CreditDays /\ AdvanceDay

SpecCredit == Init /\ [][CreditNext]_vars

\* the payment the claim names for a line of credit that owes this balance
ClaimedAutoPayment(balance) == Min(Max((2 * balance) \div 100, Mill(10)), balance)

\* what is charged for a loan of the ledger before the tick, with this cash at hand
ClaimedCharge(l, cash) ==
  IF l.loan_type # "LineOfCredit" THEN 0
  ELSE IF cash >= ClaimedAutoPayment(accrue_interest(l).balance)
  THEN ClaimedAutoPayment(accrue_interest(l).balance)
  ELSE Max(cash, 0)

\* the cash at hand when the k-th loan of the ledger gets its automatic payment
RECURSIVE CashBeforeAuto(_, _, _)
CashBeforeAuto(loans, k, cash) ==
  IF k = 1 THEN cash
  ELSE CashBeforeAuto(loans, k - 1, cash)
         - ClaimedCharge(loans[k - 1], CashBeforeAuto(loans, k - 1, cash))

\* C14: in each advance_day every line of credit is charged min(max(2% of its balance, 10),
\* balance) when the cash covers it and otherwise exactly the non-negative cash that is
\* left (possibly 0); no loan payment lowers the cash below 0, or below its value after
\* the expenses when that is negative already
C14_AutoPayment ==
  [][(day' = day + 1) =>
       LET after_expenses == player.cash + result'.total_revenue - result'.total_expenses
       IN  /\ \A k \in DOMAIN player.loans :
                LET l      == player.loans[k]
                    charge == ClaimedCharge(l, CashBeforeAuto(player.loans, k, after_expenses))
                    owed   == accrue_interest(l).balance - charge
                IN  l.loan_type = "LineOfCredit" =>
                      /\ owed >= PaidOffBelow =>
                           Listed(player'.loans, l.id) /\ BalanceOf(player'.loans, l.id) = owed
                      /\ owed < PaidOffBelow => ~Listed(player'.loans, l.id)
           /\ player'.cash = CashBeforeAuto(player.loans, Len(player.loans) + 1, after_expenses)
           /\ player'.cash >= Min(after_expenses, 0)
    ]_vars

\* a day on which the cash left after the expenses was positive and less than the payment of
\* the line of credit, 2% of what it owed: all of that cash was paid
C14_Witness ==
  /\ ret.op = "advance_day"
  /\ player.cash = 0
  /\ Len(player.loans) = 1
  /\ player.loans[1].loan_type = "LineOfCredit"
  /\ Len(result.loan_payments) = 1
  /\ result.loan_payments[1][2] > 0
  /\ result.loan_payments[1][2] * 50 < player.loans[1].balance + result.loan_payments[1][2]

-----------------------------------------------------------------------------
(* Claims about the interest of a day *)

\* one day of interest on a balance at an annual rate: balance * rate / 365
OneDayOfInterest(balance, rate) == MulDiv(balance, rate, RateDivisor)

\* what the payments of a day paid on a loan
PaidOn(payments, id) ==
  SumSeq([i \in DOMAIN payments |-> IF payments[i][1] = id THEN payments[i][2] ELSE 0])

-----------------------------------------------------------------------------
(* Claims about the ledger at the end of a day *)

\* the place of a loan in a loans_due list, 0 when it is not in it
DuePlace(loans_due, id) ==
  IF id \in DueIds(loans_due)
  THEN CHOOSE k \in DOMAIN loans_due : loans_due[k][1] = id
  ELSE 0

\* what a due loan owes after the day: nothing when the cash covered its balance, else the
\* rest with the penalty
OwedAfterDue(cash, balance) ==
  IF cash >= balance THEN 0 ELSE balance - Max(cash, 0) + balance \div 4

\* what loan l of the ledger before the tick owes when its processing ends
OwedAtClose(l, cash_before, res) ==
  IF DuePlace(res.loans_due, l.id) = 0
  THEN l.balance + OneDayOfInterest(l.balance, l.interest_rate) - PaidOn(res.loan_payments, l.id)
  ELSE OwedAfterDue(CashBeforeDue(res.loans_due, DuePlace(res.loans_due, l.id),
                                  CashAtDue(cash_before, res)),
                    DueBalance(res.loans_due, l.id))

\* C16: after every advance_day the ledger holds no loan that owes less than a cent, and
\* every loan that owes a cent or more when the day closes is still in it with that balance
\* (a term loan in default is never written off)
C16_LedgerAtClose ==
  [][(day' = day + 1) =>
       /\ \A k \in DOMAIN player'.loans : player'.loans[k].balance >= PaidOffBelow
       /\ \A k \in DOMAIN player.loans :
            LET l == player.loans[k]
            IN  IF OwedAtClose(l, player.cash, result') >= PaidOffBelow
                THEN /\ Listed(player'.loans, l.id)
                     /\ BalanceOf(player'.loans, l.id) = OwedAtClose(l, player.cash, result')
                ELSE ~Listed(player'.loans, l.id)
    ]_vars

\* a day on which a term loan came due, was paid in full and left the ledger
C16_Witness ==
  /\ ret.op = "advance_day"
  /\ Len(result.loans_due) = 1
  /\ result.loans_due[1][2] > 0
  /\ result.term_loan_penalties = 0
  /\ ~Listed(player.loans, result.loans_due[1][1])

-----------------------------------------------------------------------------
(* The economy, one update at a time *)

\* Market::advance_day is called with the days 1..EconomyDays
EconomyDays == 47

\* a market in any of the six states
EconomyInit ==
  /\ day = NewGame.day
  /\ player = NewGame.player
  /\ market \in {[NewGame.market EXCEPT !.economic_state = e] :
                   e \in {EconomicStates[i] : i \in DOMAIN EconomicStates}}
  /\ competitive_market = NewGame.competitive_market
  /\ current_store = NewGame.current_store
  /\ current_factory = NewGame.current_factory
  /\ is_bankrupt = NewGame.is_bankrupt
  /\ ret = NoCommand
  /\ result = <<>>
  /\ taken = <<>>
  /\ ObjectsInit

\* Market::advance_day(d): the seed of the day, then update_economy; the state before the
\* update is kept with the call
MarketAdvanceDay(d) ==
  /\ d <= Len(SinTable)
  /\ market' = [economic_state |-> update_economy(market.economic_state, d).economic_state,
                economic_trend |-> update_economy(market.economic_state, d).economic_trend,
                day_seed       |-> seed_of_day(d)]
  /\ ret' = [NoCommand EXCEPT !.op = "update_economy",
                              !.args = <<d, market.economic_state>>,
                              !.events = update_economy(market.economic_state, d).change]
  /\ UNCHANGED <<day, player, competitive_market, current_store, current_factory,
                 is_bankrupt, result, taken, facVars, loanVars, sale, stock_market, stock>>

EconomyNext == \E d \in 1..EconomyDays : MarketAdvanceDay(d)

SpecEconomy == EconomyInit /\ [][EconomyNext]_vars

\* the place of a state in Collapse < Recession < Standard < Growth < Booming < Prosperity
Rank(e) ==
  CASE e = "Collapse"   -> 1
    [] e = "Recession"  -> 2
    [] e = "Standard"   -> 3
    [] e = "Growth"     -> 4
    [] e = "Booming"    -> 5
    [] e = "Prosperity" -> 6

\* C17: one update of the economy moves the state by at most one level; from Collapse it
\* stays or moves up and from Prosperity it stays or moves down
C17_OneLevel ==
  [][ret'.op = "update_economy" =>
       /\ Rank(market'.economic_state) - Rank(market.economic_state) \in {-1, 0, 1}
       /\ market.economic_state = "Collapse" =>
            market'.economic_state \in {"Collapse", "Recession"}
       /\ market.economic_state = "Prosperity" =>
            market'.economic_state \in {"Prosperity", "Booming"}
    ]_vars

\* an update that took the economy down from Prosperity
C17_Witness ==
  /\ ret.op = "update_economy"
  /\ ret.args[2] = "Prosperity"
  /\ market.economic_state = "Booming"
  /\ ret.events = <<"worsened", "Booming">>

-----------------------------------------------------------------------------
(* The competitors over the first weeks *)

\* ticks of a run against the competitors are taken while day <= RivalDays
RivalDays == 16

\* the player borrows, expands and buys while day <= RivalCommandDays
RivalCommandDays == 1

SetRetailPrice(product_id, price) ==
  /\ Commanded("set_retail_price", <<product_id, price>>,
               set_retail_price(Game, product_id, price))
  /\ UNCHANGED taken

\* bread is bought at 2.00 and priced at 3.00, or at 2.00 by the player
RivalsNext ==
  \/ day <= RivalCommandDays /\ TakeFlexibleLoan(MAX_LOAN)
  \/ day <= RivalCommandDays /\ BuyNewStore
  \/ day <= RivalCommandDays /\ BuyInventory(1, 100)
  \/ day <= RivalCommandDays /\ SetRetailPrice(1, Mill(2))
  \/ day <= RivalCommandDays /\ HireEmployee
  \/ day <= RivalDays /\ AdvanceDay

SpecRivals == Init /\ [][RivalsNext]_vars

\* the customer multiplier that a list of competitors leaves to the player's stores
MultiplierAgainst(competitors, stores) ==
  player_customer_multiplier(
    market_share(competitors, Len(stores), calculate_average_markup(stores)))

\* the units the stores sell in a day with this customer multiplier, the products of each
\* store taken in this order
UnitsSold(g, store_orders, multiplier, e) ==
  ProcessStores(1, store_orders, multiplier, e, seed_of_day(g.day),
                [stores |-> g.player.stores, cash |-> g.player.cash, revenue |-> 0,
                 items |-> 0, lines |-> <<>>, expenses |-> 0, by_store |-> <<>>]).items

\* C18: the units sold in an advance_day are those of the customer multiplier that the
\* competitors as they were before the tick leave to the player, whatever the competitors
\* did during the tick
C18_SalesBeforeRivals ==
  [][(day' = day + 1) =>
       \A orders \in TickOrders(player) :
         result'.total_items_sold =
           UnitsSold(Game, orders.stores,
                     MultiplierAgainst(competitive_market.competitors, player.stores),
                     market'.economic_state)
    ]_vars

\* a day on which the player sold goods and a competitor opened a store, which leaves the
\* player another customer multiplier than the one of that day
C18_Witness ==
  /\ ret.op = "advance_day"
  /\ result.total_items_sold > 0
  /\ \E i \in DOMAIN result.competitor_events : result.competitor_events[i][1] = "new store"
  /\ MultiplierAgainst(competitive_market.competitors, player.stores)
       # player_customer_multiplier(result.player_market_share)

-----------------------------------------------------------------------------
(* The supply chain of the game *)

\* Factory::connect_store: the store joins the set of connected stores
connect_store(f, store_id) == [f EXCEPT !.connected_stores = @ \cup {store_id}]

\* Factory::toggle_auto_transfer
toggle_auto_transfer(f) == [f EXCEPT !.auto_transfer = ~@]

\* GameState::start_production, at the current factory
game_start_production(g, recipe_id) ==
  IF g.current_factory = <<>> THEN Err(g, "No factory selected")
  ELSE IF recipe_id \notin RecipeIds THEN Err(g, "Recipe not found")
  ELSE LET r == start_production(g.player.factories[g.current_factory[1] + 1],
                                 Recipes[recipe_id])
       IN  [game  |-> [g EXCEPT !.player.factories[g.current_factory[1] + 1] = r.factory],
            ok    |-> r.ok,
            value |-> 0,
            err   |-> r.err]

\* store_idx counts from 0 as in the program
connect_factory_to_store(g, store_idx) ==
  IF g.current_factory = <<>> THEN Err(g, "No factory selected")
  ELSE IF store_idx >= Len(g.player.stores) THEN Err(g, "Invalid store index")
  ELSE Ok([g EXCEPT !.player.factories[g.current_factory[1] + 1] =
                      connect_store(@, g.player.stores[store_idx + 1].id)],
          0)

toggle_factory_auto_transfer(g) ==
  IF g.current_factory = <<>> THEN Err(g, "No factory selected")
  ELSE Ok([g EXCEPT !.player.factories[g.current_factory[1] + 1] = toggle_auto_transfer(@)],
          0)

\* ticks of a supply-chain run are taken while day <= SupplyDays
SupplyDays == 3

StartProduction(recipe_id) ==
  /\ Commanded("start_production", <<recipe_id>>, game_start_production(Game, recipe_id))
  /\ UNCHANGED taken

ConnectFactoryToStore(store_idx) ==
  /\ Commanded("connect_factory_to_store", <<store_idx>>,
               connect_factory_to_store(Game, store_idx))
  /\ UNCHANGED taken

ToggleFactoryAutoTransfer ==
  /\ Commanded("toggle_factory_auto_transfer", <<>>, toggle_factory_auto_transfer(Game))
  /\ UNCHANGED taken

\* the factory is bought, stocked and set up while day <= SupplyCommandDays
SupplyCommandDays == 1

\* the factory is bought on credit; a chair takes 2 lumber and a day, a table 2 steel,
\* 1 lumber and two days
SupplyNext ==
  \/ day <= SupplyCommandDays /\ TakeFlexibleLoan(MAX_LOAN)
  \/ day <= SupplyCommandDays /\ BuyNewFactory
  \/ day <= SupplyCommandDays /\ \E product_id \in RawIds : BuyRawMaterials(product_id, 4)
  \/ day <= SupplyCommandDays /\ \E recipe_id \in RecipeIds : StartProduction(recipe_id)
  \/ day <= SupplyCommandDays /\ ConnectFactoryToStore(0)
  \/ day <= SupplyCommandDays /\ ToggleFactoryAutoTransfer
  \/ day <= SupplyDays /\ AdvanceDay

SpecSupply == Init /\ [][SupplyNext]_vars

\* the units of a product in the stores
InStores(stores, product_id) ==
  SumSeq([i \in DOMAIN stores |->
            IF product_id \in DOMAIN stores[i].inventory
            THEN stores[i].inventory[product_id].quantity ELSE 0])

\* the units of a product the sales lines of a day report
SoldOf(lines, product_id) ==
  SumSeq([i \in DOMAIN lines |-> IF lines[i][1] = product_id THEN lines[i][2] ELSE 0])

\* the lines of the transfer log of a day for a factory and a product
TransferLines(transfers, factory_id, product_id) ==
  SelectSeq(transfers, LAMBDA t : t[1] = factory_id /\ t[3] = product_id)

\* the only store a factory is connected to, when it is connected to one store
OnlyStore(f) == CHOOSE store_id \in f.connected_stores : TRUE

\* C19: after every advance_day a factory with auto_transfer on and a connected store
\* holds no finished goods: what it held after the production step, the output of the jobs
\* completed that day included, is in the inventory of the store and is logged once per
\* product with its quantity
C19_AutoTransfer ==
  [][(day' = day + 1) =>
       \A product_id \in ProductIds :
         /\ \A k \in DOMAIN player.factories :
              LET f    == player.factories[k]
                  made == advance_production(f).factory.finished_goods[product_id]
                  log  == TransferLines(result'.auto_transfers, f.id, product_id)
                  sidx == store_position(player.stores, OnlyStore(f))
              IN  (f.auto_transfer /\ Cardinality(f.connected_stores) = 1 /\ sidx # 0) =>
                    /\ player'.factories[k].finished_goods[product_id] = 0
                    /\ made = 0 => log = <<>>
                    /\ made > 0 =>
                         /\ log = <<<<f.id, OnlyStore(f), product_id, made>>>>
                         /\ product_id \in DOMAIN player'.stores[sidx].inventory
                         /\ player'.stores[sidx].inventory[product_id].quantity >= made
         /\ InStores(player'.stores, product_id)
              = InStores(player.stores, product_id)
                  - SoldOf(result'.sales_by_product, product_id)
                  + SumSeq([i \in DOMAIN result'.auto_transfers |->
                              IF result'.auto_transfers[i][3] = product_id
                              THEN result'.auto_transfers[i][4] ELSE 0])
    ]_vars

\* a day on which the two chairs completed that day went to the store together
C19_Witness ==
  /\ ret.op = "advance_day"
  /\ result.production_completed # <<>>
  /\ \E i \in DOMAIN result.auto_transfers : result.auto_transfers[i][4] >= 2
  /\ Len(player.factories) = 1
  /\ \A product_id \in ProductIds : player.factories[1].finished_goods[product_id] = 0

-----------------------------------------------------------------------------
(* The stock market of the game.  GameState::buy_stock and the stock step   *)
(* of GameState::advance_day follow the description of the day: after the   *)
(* loans, the prices of all stocks are updated and every holding is paid    *)
(* its dividend into its accumulator; the report carries the changes and    *)
(* the dividends of the day                                                 *)

\* Player::buy_stock; price in cents, cash in mills
buy_stock(p, stock_id, shares, price) ==
  IF price * 10 * shares > p.cash
  THEN [player |-> p, ok |-> FALSE, err |-> "Not enough cash"]
  ELSE [player |-> [p EXCEPT !.cash = @ - price * 10 * shares,
                             !.portfolio =
                               IF stock_id \in DOMAIN @
                               THEN [@ EXCEPT ![stock_id] = add_shares(@, shares, price)]
                               ELSE MapInsert(@, stock_id,
                                              NewStockHolding(stock_id, shares, price))],
        ok |-> TRUE, err |-> ""]

\* StockMarket::get_stock, <<>> for None
get_stock(sm, stock_id) ==
  IF \E i \in DOMAIN sm.stocks : sm.stocks[i].id = stock_id
  THEN <<sm.stocks[CHOOSE i \in DOMAIN sm.stocks : sm.stocks[i].id = stock_id]>>
  ELSE <<>>

\* GameState::buy_stock at the price of the day
game_buy_stock(g, sm, stock_id, shares) ==
  IF get_stock(sm, stock_id) = <<>> THEN Err(g, "Stock not found")
  ELSE LET r == buy_stock(g.player, stock_id, shares, get_stock(sm, stock_id)[1].price)
       IN  [game |-> [g EXCEPT !.player = r.player], ok |-> r.ok,
            value |-> IF r.ok THEN get_stock(sm, stock_id)[1].price * 10 * shares ELSE 0,
            err |-> r.err]

\* the dividend of the day of a holding
HoldingDividend(sm, h) ==
  IF get_stock(sm, h.stock_id) = <<>> THEN 0
  ELSE h.shares * daily_dividend(get_stock(sm, h.stock_id)[1])

\* the portfolio after the dividends of the day
PayDividends(sm, portfolio) ==
  [stock_id \in DOMAIN portfolio |->
     IF HoldingDividend(sm, portfolio[stock_id]) > 0
     THEN receive_dividend(portfolio[stock_id], HoldingDividend(sm, portfolio[stock_id]))
     ELSE portfolio[stock_id]]

RECURSIVE DividendsOf(_, _, _)
DividendsOf(sm, portfolio, ids) ==
  IF ids = {} THEN 0
  ELSE LET stock_id == CHOOSE x \in ids : TRUE
       IN  HoldingDividend(sm, portfolio[stock_id])
             + DividendsOf(sm, portfolio, ids \ {stock_id})

\* the stock step of advance_day on the outcome r of the other steps: the market of the
\* day after, the game with the dividends paid, and the report with its stock fields
StockStep(r, stepped) ==
  [game         |-> [r.game EXCEPT !.player.portfolio = PayDividends(stepped.stock_market, @)],
   stock_market |-> stepped.stock_market,
   result       |-> r.result @@
                      [stock_changes    |-> stepped.changes,
                       dividends_earned |-> DividendsOf(stepped.stock_market,
                                                        r.game.player.portfolio,
                                                        DOMAIN r.game.player.portfolio)]]

\* advance_day of the complete game
advance_day_with_stocks(g, sm, orders) ==
  StockStep(advance_day(g, orders),
            stock_advance_day(sm, advance_day(g, orders).game.market.economic_state))

\* ticks of a run with stocks are taken while day <= StockDays
StockDays == 4

\* shares are bought while the player holds at most MaxShares
MaxShares == 2

SharesHeld(p) == SumSeq([i \in 1..6 |-> IF i \in DOMAIN p.portfolio THEN p.portfolio[i].shares ELSE 0])

BuyStock(stock_id, shares) ==
  /\ SharesHeld(player) <= MaxShares
  /\ Commanded("buy_stock", <<stock_id, shares>>,
               game_buy_stock(Game, stock_market, stock_id, shares))
  /\ UNCHANGED taken

StockTicked(r) ==
  /\ SetGame(r.game)
  /\ result' = r.result
  /\ stock_market' = r.stock_market

AdvanceDayWithStocks ==
  /\ GameRunning
  /\ day <= Len(SinTable)
  /\ \E orders \in TickOrders(player) :
       StockTicked(advance_day_with_stocks(Game, stock_market, orders))
  /\ ret' = [NoCommand EXCEPT !.op = "advance_day"]
  /\ UNCHANGED <<taken, facVars, loanVars, sale, stock>>

\* MEGA at 100.00 and TECH at 50.00 pay dividends, MOON at 15.00 pays none
StocksNext ==
  \/ \E stock_id \in {1, 3, 5, 7}, shares \in {2, 20} : BuyStock(stock_id, shares)
  \/ day <= StockDays /\ AdvanceDayWithStocks

SpecStocks == Init /\ [][StocksNext]_vars

\* the dividend of a day on a share at this price and yield: price * yield / 365
DividendPerShare(price, yield) == (price * yield * 100) \div 365

YieldOf(stock_type) ==
  CASE stock_type = "BlueChip"    -> 4
    [] stock_type = "Growth"      -> 1
    [] stock_type = "Speculative" -> 0

\* what the holdings of a portfolio earn in a day at the prices of a list of stocks
RECURSIVE EarnedAt(_, _, _)
EarnedAt(stocks, portfolio, k) ==
  IF k = 0 THEN 0
  ELSE EarnedAt(stocks, portfolio, k - 1)
         + (IF stocks[k].id \in DOMAIN portfolio
            THEN portfolio[stocks[k].id].shares
                   * DividendPerShare(stocks[k].price, YieldOf(stocks[k].stock_type))
            ELSE 0)

-----------------------------------------------------------------------------
(* The loan ids of a session: loans are taken, paid off by hand and purged *)
(* at the end of the day                                                   *)

\* loans are requested while the ledger has issued fewer than IssueLoans loan ids
IssueLoans == 2

\* ticks of an issuing run are taken while day <= IssueDays
IssueDays == 2

\* a loan command is issued; taken keeps every loan id the session has handed out
TakeLoan(op, args, r) ==
  /\ player.next_loan_id <= IssueLoans
  /\ Commanded(op, args, r)
  /\ taken' = IF r.ok
              THEN MapInsert(taken, r.value,
                             [day |-> day, days |-> IF Len(args) = 2 THEN args[2] ELSE 0,
                              amount |-> args[1]])
              ELSE taken

IssueNext ==
  \/ \E amount \in {MIN_LOAN - 1, MIN_LOAN} :
       TakeLoan("take_flexible_loan", <<amount>>, take_flexible_loan(Game, amount))
  \/ \E amount \in {MIN_LOAN - 1, MIN_LOAN} :
       TakeLoan("take_line_of_credit", <<amount>>, take_line_of_credit(Game, amount))
  \/ \E amount \in {MIN_LOAN - 1, MIN_LOAN}, days \in {7, 10} :
       TakeLoan("take_term_loan", <<amount, days>>, take_term_loan(Game, amount, days))
  \/ \E loan_id \in 1..IssueLoans : MakeLoanPayment(loan_id, player.cash)
  \/ day <= IssueDays /\ AdvanceDay

SpecIssue == Init /\ [][IssueNext]_vars

\* C21: a successful take-loan command adds exactly the principal to the cash, appends one
\* loan whose balance is the principal and whose id is the value returned; the id is above
\* every id handed out before in the session, also those of loans purged since
C21_LoanIds ==
  [][(ret'.op \in LoanCommands /\ ret'.ok) =>
       LET n == Len(player.loans)
       IN  /\ player'.cash = player.cash + ret'.args[1]
           /\ Len(player'.loans) = n + 1
           /\ SubSeq(player'.loans, 1, n) = player.loans
           /\ player'.loans[n + 1].principal = ret'.args[1]
           /\ player'.loans[n + 1].balance = ret'.args[1]
           /\ player'.loans[n + 1].id = ret'.value
           /\ \A id \in DOMAIN taken : id < ret'.value
           /\ \A i \in 1..n : player.loans[i].id < ret'.value
    ]_vars

\* a loan was taken after the first loan of the session had been paid off and purged
C21_Witness ==
  /\ ret.op \in LoanCommands
  /\ ret.ok
  /\ ret.value > 1
  /\ 1 \in DOMAIN taken
  /\ Len(player.loans) = 1
  /\ player.loans[1].id = ret.value

-----------------------------------------------------------------------------
(* Transfers by hand from the current factory to a store *)

\* Factory::is_connected_to
is_connected_to(f, store_id) == store_id \in f.connected_stores

\* a variant that stocks the store with the quantity asked for
transfer_to_store_as_asked(g, product_id, quantity, store_idx) ==
  IF g.current_factory = <<>> THEN Err(g, "No factory selected")
  ELSE IF store_idx >= Len(g.player.stores) THEN Err(g, "Invalid store index")
  ELSE IF ~is_connected_to(g.player.factories[g.current_factory[1] + 1],
                           g.player.stores[store_idx + 1].id)
  THEN Err(g, "Factory is not connected")
  ELSE IF product_id \notin ProductIds THEN Err(g, "Product not found")
  ELSE LET r == take_finished_goods(g.player.factories[g.current_factory[1] + 1],
                                    product_id, quantity)
           retail_price == suggest_retail_price(Products[product_id].base_price, 50)
       IN  IF ~r.ok THEN Err(g, r.err)
           ELSE Ok([g EXCEPT !.player.factories[g.current_factory[1] + 1] = r.factory,
                             !.player.stores[store_idx + 1] =
                               add_inventory(@, product_id, quantity, retail_price)],
                   r.value)

\* GameState::transfer_to_store; store_idx counts from 0, the value is the quantity moved
transfer_to_store(g, product_id, quantity, store_idx) ==
  IF g.current_factory = <<>> THEN Err(g, "No factory selected")
  ELSE IF store_idx >= Len(g.player.stores) THEN Err(g, "Invalid store index")
  ELSE IF ~is_connected_to(g.player.factories[g.current_factory[1] + 1],
                           g.player.stores[store_idx + 1].id)
  THEN Err(g, "Factory is not connected")
  ELSE IF product_id \notin ProductIds THEN Err(g, "Product not found")
  ELSE LET r == take_finished_goods(g.player.factories[g.current_factory[1] + 1],
                                    product_id, quantity)
           retail_price == suggest_retail_price(Products[product_id].base_price, 50)
       IN  IF ~r.ok THEN Err(g, r.err)
           ELSE Ok([g EXCEPT !.player.factories[g.current_factory[1] + 1] = r.factory,
                             !.player.stores[store_idx + 1] =
                               add_inventory(@, product_id, r.value, retail_price)],
                   r.value)

\* ticks of a transfer run are taken while day <= TransferDays
TransferDays == 2

\* the factory is bought, stocked and set up while day <= TransferSetupDays
TransferSetupDays == 1

TransferToStore(product_id, quantity, store_idx) ==
  /\ Commanded("transfer_to_store", <<product_id, quantity, store_idx>>,
               transfer_to_store(Game, product_id, quantity, store_idx))
  /\ UNCHANGED taken

\* chairs are made on the first day and moved by hand afterwards; 99 is no product
TransferNext ==
  \/ day <= TransferSetupDays /\ TakeFlexibleLoan(MAX_LOAN)
  \/ day <= TransferSetupDays /\ BuyNewFactory
  \/ day <= TransferSetupDays /\ BuyRawMaterials(11, 4)
  \/ day <= TransferSetupDays /\ StartProduction(1)
  \/ ConnectFactoryToStore(0)
  \/ \E product_id \in {16, 17, 99}, quantity \in {0, 1, 5}, store_idx \in {0, 1} :
       TransferToStore(product_id, quantity, store_idx)
  \/ day <= TransferDays /\ AdvanceDay

SpecTransfer == Init /\ [][TransferNext]_vars

\* the finished goods of a product in the factories
InFactories(factories, product_id) ==
  SumSeq([i \in DOMAIN factories |->
            IF product_id \in DOMAIN factories[i].finished_goods
            THEN factories[i].finished_goods[product_id] ELSE 0])

\* the cases in which the claim says the transfer fails
TransferMustFail(product_id, store_idx) ==
  \/ current_factory = <<>>
  \/ store_idx >= Len(player.stores)
  \/ player.stores[store_idx + 1].id
       \notin player.factories[current_factory[1] + 1].connected_stores
  \/ product_id \notin ProductIds
  \/ player.factories[current_factory[1] + 1].finished_goods[product_id] = 0

\* C22: transfer_to_store fails and changes no factory and no store when no factory is
\* selected, the store index is invalid, the factory is not connected to the store, the
\* product is unknown or the factory holds none of it; when it succeeds it moves
\* min(q, available) units from the factory to the store, so that the units of the
\* product in factories and stores together stay the same
C22_TransferToStore ==
  [][(ret'.op = "transfer_to_store") =>
       LET product_id == ret'.args[1]
           q          == ret'.args[2]
           store_idx  == ret'.args[3]
       IN  /\ TransferMustFail(product_id, store_idx) => ~ret'.ok
           /\ ~ret'.ok => /\ player'.factories = player.factories
                          /\ player'.stores = player.stores
           /\ ret'.ok =>
                LET f == player.factories[current_factory[1] + 1]
                    available == f.finished_goods[product_id]
                IN  /\ ret'.value = Min(q, available)
                    /\ player'.factories[current_factory[1] + 1].finished_goods[product_id]
                         = available - Min(q, available)
                    /\ Held(player'.stores[store_idx + 1], product_id)
                         = Held(player.stores[store_idx + 1], product_id) + Min(q, available)
                    /\ InFactories(player'.factories, product_id)
                         + InStores(player'.stores, product_id)
                       = InFactories(player.factories, product_id)
                         + InStores(player.stores, product_id)
    ]_vars

\* more chairs were asked for than the factory held, and the two it held went to the store
C22_Witness ==
  /\ ret.op = "transfer_to_store"
  /\ ret.ok
  /\ ret.args = <<16, 5, 0>>
  /\ ret.value = 2
  /\ Held(player.stores[1], 16) = 2
  /\ player.factories[1].finished_goods[16] = 0

-----------------------------------------------------------------------------
(* Claims about the production requests the stand-alone factory refuses *)

\* the free slots of the stand-alone factory, 2 + workers less the jobs queued
FreeSlots ==
  IF 2 + Len(factory.workers) >= Len(factory.production_queue)
  THEN 2 + Len(factory.workers) - Len(factory.production_queue) ELSE 0

\* the factory holds too little of an ingredient for one batch of the recipe
MaterialsShort(recipe) ==
  \E i \in DOMAIN recipe.ingredients :
     factory.raw_materials[recipe.ingredients[i].product_id] < recipe.ingredients[i].quantity

StartCalls == {"start_production", "start_production_batch"}

\* C23 as stated: a start_production or start_production_batch call that fails, a batch of 0
\* included, leaves raw materials and queue unchanged and reports 'No available production
\* slots' exactly when there is no free slot and 'Insufficient raw materials' when slots are
\* free but materials are short
C23_AsStated ==
  [][(fret'.op \in StartCalls) =>
       /\ ~fret'.ok =>
            /\ factory'.raw_materials = factory.raw_materials
            /\ factory'.production_queue = factory.production_queue
            /\ (fret'.err = "No available production slots") <=> (FreeSlots = 0)
            /\ (FreeSlots > 0 /\ MaterialsShort(Recipes[fret'.recipe])) =>
                 fret'.err = "Insufficient raw materials"
       /\ factory'.raw_materials # factory.raw_materials =>
            Len(factory'.production_queue) > Len(factory.production_queue)
    ]_vars

\* C23: a start_production or start_production_batch call that fails leaves raw materials
\* and queue unchanged; a batch of 0 is refused with 'Quantity must be greater than 0'
\* whatever the slots and materials; any other failure reports 'No available production
\* slots' exactly when there is no free slot and 'Insufficient raw materials' when slots are
\* free but materials are short; materials are never debited without a job being queued
C23_RefusedStart ==
  [][(fret'.op \in StartCalls) =>
       /\ ~fret'.ok =>
            /\ factory'.raw_materials = factory.raw_materials
            /\ factory'.production_queue = factory.production_queue
            /\ fret'.requested = 0 => fret'.err = "Quantity must be greater than 0"
            /\ fret'.requested >= 1 =>
                 /\ (fret'.err = "No available production slots") <=> (FreeSlots = 0)
                 /\ (FreeSlots > 0 /\ MaterialsShort(Recipes[fret'.recipe])) =>
                      fret'.err = "Insufficient raw materials"
       /\ factory'.raw_materials # factory.raw_materials =>
            Len(factory'.production_queue) > Len(factory.production_queue)
    ]_vars

\* a chair was refused for want of a slot although the lumber for it was there
C23_Witness ==
  /\ fret.op = "start_production"
  /\ ~fret.ok
  /\ fret.recipe = 1
  /\ fret.err = "No available production slots"
  /\ factory.raw_materials[11] >= 2
  /\ Len(factory.production_queue) >= 2 + Len(factory.workers)

-----------------------------------------------------------------------------
(* A stand-alone stock, created by Stock::new and updated day after day in *)
(* one economy                                                             *)

\* update_price is called while the stock has been updated fewer than MaxUpdates times
MaxUpdates == 7

StockTypes == {"BlueChip", "Growth", "Speculative"}

\* a stock at 0.55 and one at 8.00, of each type, in each economic state
QuoteInit ==
  /\ GameInit
  /\ factory = NewFactory(1)
  /\ fret = NoCall
  /\ loan = new_flexible(1, MIN_LOAN, 16)
  /\ lret = NoLoanCall
  /\ sale = NoSale
  /\ stock_market = NewStockMarket
  /\ \E stock_type \in StockTypes, price \in {55, 800}, e \in EconomicStateSet :
       stock = [NoQuote EXCEPT !.stock = NewStock(1, stock_type, price),
                               !.economic_state = e]

\* Stock::update_price with a random factor, in ten-thousandths
UpdatePrice(random_factor) ==
  LET r == update_price(stock.stock, stock.economic_state, random_factor)
  IN  /\ stock.calls < MaxUpdates
      /\ stock' = [stock EXCEPT !.stock = r.stock, !.random_factor = random_factor,
                                !.change = r.change, !.calls = @ + 1]
      /\ UNCHANGED <<gameVars, facVars, loanVars, sale, stock_market>>

QuoteNext == \E random_factor \in {-10000, 0, 10000} : UpdatePrice(random_factor)

SpecQuote == QuoteInit /\ [][QuoteNext]_vars

\* C24: after every update_price call, in every economic state and for random factors
\* from -1 to 1, the price is at least 0.50 and the price history has at most 7 entries
C24_FloorAndHistory ==
  stock.calls > 0 =>
    /\ stock.stock.price >= 50
    /\ Len(stock.stock.price_history) <= 7

\* the seventh update of a stock that was created at 0.55: the price is at the floor and
\* the history is full
C24_Witness ==
  /\ stock.calls >= 7
  /\ stock.stock.base_price = 55
  /\ stock.stock.price = 50
  /\ stock.change < 0
  /\ Len(stock.stock.price_history) = 7

-----------------------------------------------------------------------------
(* Claims about the days a production job of the stand-alone factory takes *)

\* the jobs that have more than one day to go
StillQueued(queue) == SelectSeq(queue, LAMBDA job : job.days_remaining # 1)

\* the output of product p of the jobs that have one day to go
DueOutput(queue, p) ==
  SumSeq([i \in DOMAIN queue |->
            IF queue[i].days_remaining = 1 /\ queue[i].output_product_id = p
            THEN queue[i].output_quantity ELSE 0])

\* C25: a job enters the queue with days_remaining = production_days = d >= 1; every
\* advance_production call takes one day off every queued job, keeps the jobs that have
\* days left, in their order, and moves the output of the jobs that reach 0 into
\* finished_goods, once; no other call touches a queued job.  So a job stays queued for
\* d - 1 calls and completes on the d-th
C25_JobTakesItsDays ==
  [][/\ \A i \in DOMAIN factory.production_queue :
          factory.production_queue[i].days_remaining >= 1
     /\ (fret'.op \in StartCalls /\ fret'.ok) =>
          /\ SubSeq(factory'.production_queue, 1, Len(factory.production_queue))
               = factory.production_queue
          /\ \A i \in (Len(factory.production_queue) + 1)..Len(factory'.production_queue) :
               /\ factory'.production_queue[i].days_remaining
                    = Recipes[fret'.recipe].production_days
               /\ factory'.production_queue[i].output_product_id
                    = Recipes[fret'.recipe].output_product_id
               /\ factory'.production_queue[i].output_quantity
                    = Recipes[fret'.recipe].output_quantity
          /\ factory'.finished_goods = factory.finished_goods
     /\ (fret'.op = "advance_production") =>
          /\ Len(factory'.production_queue) = Len(StillQueued(factory.production_queue))
          /\ \A i \in DOMAIN factory'.production_queue :
               factory'.production_queue[i] =
                 [StillQueued(factory.production_queue)[i] EXCEPT !.days_remaining = @ - 1]
          /\ \A p \in ProductIds :
               factory'.finished_goods[p]
                 = factory.finished_goods[p] + DueOutput(factory.production_queue, p)
          /\ fret'.value = Len(factory.production_queue) - Len(factory'.production_queue)
     /\ (fret'.op \notin StartCalls /\ fret'.op # "advance_production") =>
          factory'.production_queue = factory.production_queue
    ]_vars

\* a table, two days of work, has left the queue into the finished goods on an
\* advance_production call while a job started later stays queued with a day to go
C25_Witness ==
  /\ fret.op = "advance_production"
  /\ fret.value = 1
  /\ factory.finished_goods[17] = 1
  /\ Len(factory.production_queue) = 1
  /\ factory.production_queue[1].recipe_id = 2
  /\ factory.production_queue[1].days_remaining = 1

-----------------------------------------------------------------------------
(* Claims about the daily update of a competitor.  The days that have passed *)
(* since the last expansion are the days_since_expansion the competitor      *)
(* enters the update with; its cash is the cash after the revenue and the    *)
(* expenses of the day                                                       *)

\* the cash of a competitor after the revenue and the expenses of the day
CashOfDay(c, economic_multiplier, share) ==
  c.cash + MulDiv(c.store_count * Mill(20) * economic_multiplier, share[2] - share[1], share[2])
         - c.store_count * Mill(150)

\* the conditions of the strategy switch: share above 0.4, not Aggressive, 10 days
SwitchDue(c, share) ==
  /\ 5 * share[1] > 2 * share[2]
  /\ c.strategy # "Aggressive"
  /\ c.days_since_expansion >= 10

\* the conditions of the expansion: cash above 20000, 14 days
ExpansionDue(c, economic_multiplier, share) ==
  /\ CashOfDay(c, economic_multiplier, share) > Mill(20000)
  /\ c.days_since_expansion >= 14

\* how often the event is among the events of the update
TimesIn(events, event) ==
  Cardinality({k \in DOMAIN events : events[k] = event})

\* C26: in the daily update of a competitor, when the player's share is above 0.4, the
\* competitor is not Aggressive and 10 days or more have passed since its last expansion,
\* the competitor is Aggressive after the update and the update reports the switch
C26_SwitchToAggressive ==
  [][(ret'.op = "competitors_advance_day") =>
       \A i \in DOMAIN competitive_market.competitors :
          LET c == competitive_market.competitors[i]
          IN  SwitchDue(c, competitive_market.player_market_share) =>
                /\ competitive_market'.competitors[i].strategy = "Aggressive"
                /\ TimesIn(ret'.events, <<"aggressive", c.id>>) = 1
    ]_vars

\* a Premium competitor has switched on the update that followed its tenth day
C26_Witness ==
  /\ ret.op = "competitors_advance_day"
  /\ \E i \in DOMAIN competitive_market.competitors :
        /\ default_competitors[i].strategy = "Premium"
        /\ competitive_market.competitors[i].strategy = "Aggressive"
        /\ competitive_market.competitors[i].days_since_expansion = 11
        /\ TimesIn(ret.events, <<"aggressive", competitive_market.competitors[i].id>>) = 1

\* C27: in the daily update of a competitor, when its cash is above 20000 and 14 days or
\* more have passed since its last expansion, it opens a store: 10000 less cash, one store
\* more, the counter of days back at 0, one event; otherwise its store count stays
C27_Expansion ==
  [][(ret'.op = "competitors_advance_day") =>
       \A i \in DOMAIN competitive_market.competitors :
          LET c    == competitive_market.competitors[i]
              c2   == competitive_market'.competitors[i]
              cash == CashOfDay(c, ret'.args[1], competitive_market.player_market_share)
          IN  /\ ExpansionDue(c, ret'.args[1], competitive_market.player_market_share) =>
                   /\ c2.cash = cash - Mill(10000)
                   /\ c2.store_count = c.store_count + 1
                   /\ c2.days_since_expansion = 0
                   /\ TimesIn(ret'.events, <<"new store", c.id>>) = 1
              /\ ~ExpansionDue(c, ret'.args[1], competitive_market.player_market_share) =>
                   c2.store_count = c.store_count
    ]_vars

\* C28: when the conditions of the strategy switch and of the expansion hold for a
\* competitor in the same daily update, it switches and opens a store in that update and
\* both events are reported
C28_SwitchAndExpansion ==
  [][(ret'.op = "competitors_advance_day") =>
       \A i \in DOMAIN competitive_market.competitors :
          LET c  == competitive_market.competitors[i]
              c2 == competitive_market'.competitors[i]
          IN  (/\ SwitchDue(c, competitive_market.player_market_share)
               /\ ExpansionDue(c, ret'.args[1], competitive_market.player_market_share)) =>
                /\ c2.strategy = "Aggressive"
                /\ c2.store_count = c.store_count + 1
                /\ TimesIn(ret'.events, <<"aggressive", c.id>>) = 1
                /\ TimesIn(ret'.events, <<"new store", c.id>>) = 1
    ]_vars

-----------------------------------------------------------------------------
(* The competitors' reaction to a new store of the player *)

\* ticks of an expansion run are taken while day <= ExpansionDays
ExpansionDays == 3

\* the store is bought on credit, on any day, or not at all
ExpansionNext ==
  \/ TakeFlexibleLoan(MAX_LOAN)
  \/ BuyNewStore
  \/ \E index \in 0..1 : SwitchStore(index)
  \/ HireEmployee
  \/ day <= ExpansionDays /\ AdvanceDay

SpecExpansion == Init /\ [][ExpansionNext]_vars

\* the competitors the claim says a new store of the player turns Aggressive
Reacting(competitors) ==
  {i \in DOMAIN competitors :
     competitors[i].strategy = "Neutral" /\ competitors[i].cash > Mill(5000)}

\* C29: a successful buy_new_store turns every Neutral competitor with cash above 5000
\* Aggressive at once, without a tick, and returns one reaction for each of them; it
\* changes nothing else of any competitor; a failed buy_new_store changes no competitor;
\* Aggressive and Premium competitors are never changed by it
C29_ReactionToNewStore ==
  [][(ret'.op = "buy_new_store") =>
       LET cs  == competitive_market.competitors
           cs2 == competitive_market'.competitors
       IN  /\ day' = day
           /\ Len(cs2) = Len(cs)
           /\ ret'.ok =>
                /\ \A i \in DOMAIN cs :
                     cs2[i] = IF i \in Reacting(cs)
                              THEN [cs[i] EXCEPT !.strategy = "Aggressive"] ELSE cs[i]
                /\ Len(ret'.events) = Cardinality(Reacting(cs))
                /\ \A i \in Reacting(cs) : TimesIn(ret'.events, <<"responding", cs[i].id>>) = 1
           /\ ~ret'.ok => cs2 = cs
           /\ \A i \in DOMAIN cs : cs[i].strategy \in {"Aggressive", "Premium"} => cs2[i] = cs[i]
    ]_vars

\* a store bought on the second day: ValueStore, Neutral until then, answers with lower
\* prices, Quality Goods Co stays Premium
C29_Witness ==
  /\ ret.op = "buy_new_store"
  /\ ret.ok
  /\ day = 2
  /\ ret.events = <<<<"responding", 3>>>>
  /\ competitive_market.competitors[3].strategy = "Aggressive"
  /\ competitive_market.competitors[2].strategy = "Premium"
  /\ Len(player.stores) = 2

-----------------------------------------------------------------------------
(* Claims about the sales formula, on the sale of one inventory line *)

\* price_factor = clamp(1 - 0.5 * (retail - base) / base, 0, 2) as the fraction
\* <<numerator, denominator>> in lowest terms
PriceFactor(base_price, retail_price) ==
  LET num == Max(0, Min(3 * base_price - retail_price, 4 * base_price))
      g   == GCD(num, 2 * base_price)
  IN  <<num \div g, (2 * base_price) \div g>>

\* customer_count * 0.1 * category_weight * sales_multiplier * price_factor as the
\* fraction <<numerator, denominator>>
ExpectedSales(s) ==
  LET pf == PriceFactor(Products[s.product_id].base_price, s.retail_price)
  IN  <<s.customer_count * category_demand(Products[s.product_id].category)
          * sales_multiplier(s.economic_state) * pf[1],
        1000 * pf[2]>>

\* the variance of the day, 0.8 + x / 1000 * 0.4, in 2500ths
VarianceOfDay(d) == 2000 + ((((d * 31337 + 42) % 1000) * 245 + 345) % 1000)

\* C30 as stated: calculate_sales returns min(floor(expected * variance), available),
\* expected not rounded before it is multiplied by the variance
C30_AsStated ==
  calculate_sales(Products[sale.product_id], sale.retail_price, sale.available,
                  sale.customer_count, sale.economic_state, seed_of_day(sale.day))
    = Min((ExpectedSales(sale)[1] * VarianceOfDay(sale.day))
            \div (ExpectedSales(sale)[2] * 2500),
          sale.available)

\* C30: for every input, calculate_sales returns
\* min(floor(floor(expected) * variance), available): expected is cut to a whole number
\* of units before it is multiplied by the variance
C30_SalesFormula ==
  /\ calculate_sales(Products[sale.product_id], sale.retail_price, sale.available,
                     sale.customer_count, sale.economic_state, seed_of_day(sale.day))
       = Min(((ExpectedSales(sale)[1] \div ExpectedSales(sale)[2]) * VarianceOfDay(sale.day))
               \div 2500,
             sale.available)
  /\ sale.done =>
       sale.sales = Min(((ExpectedSales(sale)[1] \div ExpectedSales(sale)[2])
                           * VarianceOfDay(sale.day)) \div 2500,
                        sale.available)

\* a line was sold on a day for which the product of the unrounded expectation and the
\* variance is a unit more than what was sold, with stock left over
C30_Witness ==
  /\ sale.done
  /\ sale.sales >= 1
  /\ sale.sales < sale.available
  /\ (ExpectedSales(sale)[1] * VarianceOfDay(sale.day)) \div (ExpectedSales(sale)[2] * 2500)
       = sale.sales + 1

-----------------------------------------------------------------------------
(* Claims about raw materials on a store's shelf, on the sale of one inventory line *)

\* C31: a product of category RawMaterial never sells at retail: for every price, stock
\* level, customer count, economic state and day calculate_sales returns 0 for it, and
\* the sales step of a tick leaves its line with the quantity it had and earns nothing
C31_RawMaterialUnsold ==
  Products[sale.product_id].category = "RawMaterial" =>
    /\ calculate_sales(Products[sale.product_id], sale.retail_price, sale.available,
                       sale.customer_count, sale.economic_state, seed_of_day(sale.day)) = 0
    /\ sale.done =>
         /\ sale.sales = 0
         /\ sale.revenue = <<>>
         /\ sale.remaining = sale.available

\* a raw material went through the sales step with stock on the shelf, customers in the
\* store and a price at which a product of another category of the same weight sells
C31_Witness ==
  /\ sale.done
  /\ Products[sale.product_id].category = "RawMaterial"
  /\ sale.available > 0
  /\ sale.customer_count > 0
  /\ sales_multiplier(sale.economic_state) > 10
  /\ sale.retail_price < Products[sale.product_id].base_price
  /\ sale.remaining = sale.available
  /\ calculate_sales([Products[sale.product_id] EXCEPT !.category = "Clothing"],
                     sale.retail_price, sale.available, sale.customer_count,
                     sale.economic_state, seed_of_day(sale.day)) > 0

-----------------------------------------------------------------------------
(* Payments by hand on the loans of a session *)

\* days that pass between the loans, taken on the first day, and the payments by hand
PaymentDays == 1

\* the amounts offered: negative, nothing, a part of a loan, more than a loan owes and a
\* mill more than the cash
PaymentAmounts == {0 - Mill(1), 0, Mill(300), Mill(600), player.cash + 1}

PaymentNext ==
  \/ day = 1 /\ TakeLoan("take_flexible_loan", <<MIN_LOAN>>, take_flexible_loan(Game, MIN_LOAN))
  \/ day = 1 /\ TakeLoan("take_line_of_credit", <<MIN_LOAN>>, take_line_of_credit(Game, MIN_LOAN))
  \/ \E loan_id \in 1..(IssueLoans + 1), amount \in PaymentAmounts :
       day > PaymentDays /\ MakeLoanPayment(loan_id, amount)
  \/ day <= PaymentDays /\ AdvanceDay

SpecPayment == Init /\ [][PaymentNext]_vars

\* the balances of the loans other than id, in the order of the list
OtherLoans(loans, id) == SelectSeq(loans, LAMBDA l : l.id # id)

\* C32: make_loan_payment(loan_id, amount) succeeds exactly when amount > 0, the cash is
\* at least the amount and the loan is in the list; on success the value returned is
\* min(amount, balance) and the cash and the loan's balance both go down by exactly that
\* value, the other loans as they were; when it fails the cash and every loan are unchanged
C32_LoanPayment ==
  [][ret'.op = "make_loan_payment" =>
       LET loan_id == ret'.args[1]
           amount  == ret'.args[2]
       IN  /\ ret'.ok <=> (amount > 0 /\ player.cash >= amount /\ Listed(player.loans, loan_id))
           /\ ret'.ok =>
                /\ ret'.value = Min(amount, BalanceOf(player.loans, loan_id))
                /\ player'.cash = player.cash - ret'.value
                /\ Listed(player'.loans, loan_id)
                /\ BalanceOf(player'.loans, loan_id)
                     = BalanceOf(player.loans, loan_id) - ret'.value
                /\ OtherLoans(player'.loans, loan_id) = OtherLoans(player.loans, loan_id)
                /\ Len(player'.loans) = Len(player.loans)
           /\ ~ret'.ok =>
                /\ player'.cash = player.cash
                /\ player'.loans = player.loans
    ]_vars

\* a payment of more than the loan owed was accepted and took the balance and no more,
\* with another loan in the list
C32_Witness ==
  /\ ret.op = "make_loan_payment"
  /\ ret.ok
  /\ ret.value > 0
  /\ ret.value < ret.args[2]
  /\ Len(player.loans) = 2
  /\ BalanceOf(player.loans, ret.args[1]) = 0
  /\ player.cash > 0

-----------------------------------------------------------------------------
(* The player's portfolio: Player::buy_stock and Player::sell_stock called  *)
(* with a price                                                             *)

\* StockHolding::remove_shares
remove_shares(h, shares) == IF shares > h.shares THEN h ELSE [h EXCEPT !.shares = @ - shares]

\* a variant that keeps a holding that was sold out
sell_stock_keeps_empty(p, stock_id, shares, price) ==
  IF stock_id \notin DOMAIN p.portfolio
  THEN [player |-> p, ok |-> FALSE, value |-> 0, err |-> "You don't own this stock"]
  ELSE IF shares > p.portfolio[stock_id].shares
  THEN [player |-> p, ok |-> FALSE, value |-> 0, err |-> "Not enough shares"]
  ELSE [player |-> [p EXCEPT !.cash = @ + price * 10 * shares,
                             !.portfolio[stock_id] = remove_shares(@, shares)],
        ok |-> TRUE, value |-> price * 10 * shares, err |-> ""]

\* Player::sell_stock; price in cents, cash and proceeds in mills
sell_stock(p, stock_id, shares, price) ==
  IF stock_id \notin DOMAIN p.portfolio
  THEN [player |-> p, ok |-> FALSE, value |-> 0, err |-> "You don't own this stock"]
  ELSE IF shares > p.portfolio[stock_id].shares
  THEN [player |-> p, ok |-> FALSE, value |-> 0, err |-> "Not enough shares"]
  ELSE LET holding == remove_shares(p.portfolio[stock_id], shares)
       IN  [player |-> [p EXCEPT !.cash = @ + price * 10 * shares,
                                 !.portfolio =
                                   IF holding.shares = 0
                                   THEN [k \in DOMAIN @ \ {stock_id} |-> @[k]]
                                   ELSE [@ EXCEPT ![stock_id] = holding]],
            ok |-> TRUE, value |-> price * 10 * shares, err |-> ""]

\* shares bought while the portfolio holds no more than this
PortfolioShares == 3

\* prices of a share in cents; the first stock is bought at the lower one, the second at
\* the higher one, and both are sold at either
TradePrices == {5000, 15000}

\* the player trades while the cash is within this many hundreds of dollars below the
\* starting cash, and sells while it is not above it
PortfolioSwing == 1

\* a call on the player leaves the rest of the game alone
PlayerCalled(op, args, r) ==
  /\ GameRunning
  /\ player' = r.player
  /\ ret' = [op |-> op, ok |-> r.ok, value |-> r.value, err |-> r.err, args |-> args,
             events |-> <<>>]
  /\ UNCHANGED <<day, market, competitive_market, current_store, current_factory,
                 is_bankrupt, result, taken>>
  /\ GameOnly

\* the menu passes at least one share; 1000 shares cost more than the cash
PlayerBuyStock(stock_id, shares, price) ==
  /\ player.cash + Mill(100) * PortfolioSwing >= StartingCash
  /\ SharesHeld(player) + shares <= PortfolioShares \/ price * 10 * shares > player.cash
  /\ PlayerCalled("buy_stock", <<stock_id, shares, price>>,
                  [value |-> 0] @@ buy_stock(player, stock_id, shares, price))

PlayerSellStock(stock_id, shares, price) ==
  /\ player.cash <= StartingCash
  /\ PlayerCalled("sell_stock", <<stock_id, shares, price>>,
                  sell_stock(player, stock_id, shares, price))

PortfolioNext ==
  \/ \E stock_id \in {1, 2}, shares \in {1, 2, 1000} :
       PlayerBuyStock(stock_id, shares, IF stock_id = 1 THEN 5000 ELSE 15000)
  \/ \E stock_id \in {1, 2, 3}, shares \in 1..(PortfolioShares + 1), price \in TradePrices :
       PlayerSellStock(stock_id, shares, price)

SpecPortfolio == Init /\ [][PortfolioNext]_vars

\* the shares of a stock in a portfolio, 0 when there is no holding
SharesOf(portfolio, stock_id) ==
  IF stock_id \in DOMAIN portfolio THEN portfolio[stock_id].shares ELSE 0

\* the holdings of the stocks other than stock_id
OtherHoldings(portfolio, stock_id) == [k \in DOMAIN portfolio \ {stock_id} |-> portfolio[k]]

-----------------------------------------------------------------------------
(* Solvency: every command of the game that takes cash, and the days between *)

\* days of a session that spends down to the last dollar
SolvencyDays == 2

\* the commands of the first day
SolvencyCommand ==
  \/ \E product_id \in {1, 11}, quantity \in {190, 4000} : BuyInventory(product_id, quantity)
  \/ BuyRawMaterials(11, 4)
  \/ BuyNewStore
  \/ BuyNewFactory
  \/ TakeFlexibleLoan(Mill(25000))
  \/ MakeLoanPayment(1, player.cash)
  \/ HireEmployee

SolvencyNext ==
  \/ day = 1 /\ SolvencyCommand
  \/ day <= SolvencyDays /\ AdvanceDay

SpecSolvency == Init /\ [][SolvencyNext]_vars

\* C34: in every state between two commands negative cash implies is_bankrupt: no command
\* other than advance_day takes the cash from 0 or more to below 0, and advance_day sets
\* the flag whenever it leaves the cash negative
C34_NegativeCashIsBankrupt ==
  /\ [](player.cash < 0 => is_bankrupt)
  /\ [][/\ (ret'.op # "advance_day" /\ player.cash >= 0) => player'.cash >= 0
        /\ (ret'.op = "advance_day" /\ player'.cash < 0) => is_bankrupt'
       ]_vars

\* a day ended with negative cash and the flag set, after the player had spent on stock,
\* on a loan and on a second store
C34_Witness ==
  /\ ret.op = "advance_day"
  /\ player.cash < 0
  /\ is_bankrupt
  /\ Len(player.stores) = 2
  /\ player.loans # <<>>
  /\ TotalStock(player) > 0

-----------------------------------------------------------------------------
(* Claims about the term loan after its due day, on the ledger of a month *)

\* a term loan whose term ran out on an earlier tick and that still owes a cent or more
PastDue(l) == l.loan_type = "TermLoan" /\ is_due(l) /\ ~is_paid_off(l)

\* C35: the 25% penalty is charged at most once per term loan: on every tick after the
\* one in which the loan came due, an unpaid term loan is not in loans_due and its balance
\* grows by the interest of the day only
C35_PenaltyOnce ==
  [][(ret'.op = "advance_day" /\ day' = day + 1) =>
       \A i \in DOMAIN player.loans :
         PastDue(player.loans[i]) =>
           /\ player.loans[i].id \notin DueIds(result'.loans_due)
           /\ Listed(player'.loans, player.loans[i].id) =>
                BalanceOf(player'.loans, player.loans[i].id)
                  = player.loans[i].balance + daily_interest(player.loans[i])
    ]_vars

-----------------------------------------------------------------------------
(* The cash of a day against its report: a line of credit and a term loan   *)
(* that comes due                                                           *)

\* ticks of the days of the accounts
AccountDays == 8

\* what the player does on the first day
AccountCommand ==
  \/ BorrowLineOfCredit(MIN_LOAN)
  \/ \E amount \in {MIN_LOAN, MAX_LOAN} : BorrowTerm(amount, 7)
  \/ HireEmployee
  \/ BuyInventory(1, 190)

AccountsNext ==
  \/ day = 1 /\ AccountCommand
  \/ day <= AccountDays /\ AdvanceDay

SpecAccounts == Init /\ [][AccountsNext]_vars

\* what the due loans of a report took from the cash there was when the first of them
\* was processed
PaidOnDue(loans_due, cash) == cash - CashBeforeDue(loans_due, Len(loans_due) + 1, cash)

\* C36 as stated: every amount taken from the cash toward a loan during a tick is in
\* loan_payments, so the cash changes by total_revenue - total_expenses - the sum of the
\* amounts in loan_payments
C36_AsStated ==
  [][(ret'.op = "advance_day" /\ day' = day + 1) =>
       player'.cash = CashAtDue(player.cash, result')
    ]_vars

\* C36: loan_payments holds the automatic payments on the lines of credit; what is paid on
\* a term loan that is due is not in it: the due balance when the cash covers it, the cash
\* there is, if any, when it does not. In every tick the cash changes by total_revenue
\* - total_expenses - the sum of the amounts in loan_payments - what is paid on the loans
\* of loans_due
C36_CashOfTheDay ==
  [][(ret'.op = "advance_day" /\ day' = day + 1) =>
       /\ player'.cash = CashAtDue(player.cash, result')
                           - PaidOnDue(result'.loans_due, CashAtDue(player.cash, result'))
       /\ \A k \in DOMAIN result'.loan_payments :
            \E i \in DOMAIN player.loans :
              /\ player.loans[i].id = result'.loan_payments[k][1]
              /\ player.loans[i].loan_type = "LineOfCredit"
    ]_vars

\* a day with sales on which a line of credit took its automatic payment and a term loan
\* came due and was paid in full out of the cash
C36_Witness ==
  /\ ret.op = "advance_day"
  /\ result.total_revenue > 0
  /\ result.loan_payments # <<>>
  /\ Len(result.loans_due) = 1
  /\ result.loans_due[1][2] > 0
  /\ result.term_loan_penalties = 0
  /\ ~Listed(player.loans, result.loans_due[1][1])
  /\ player.cash > 0

-----------------------------------------------------------------------------
(* The shelf of a store that is stocked by purchase, by hand from the       *)
(* factory and by the automatic transfer                                    *)

\* ticks of the days of the shelf
ShelfDays == 2

\* chairs are bought wholesale while the stores hold fewer than this many
ShelfStock == 2

\* the factory is bought on credit, stocked with lumber, set to make chairs, connected to
\* the first store and switched to automatic transfer
ShelfSetup ==
  \/ TakeFlexibleLoan(MAX_LOAN)
  \/ BuyNewFactory
  \/ BuyRawMaterials(11, 4)
  \/ StartProduction(1)
  \/ ConnectFactoryToStore(0)
  \/ ToggleFactoryAutoTransfer

\* the player prices the chairs at 30.00; the suggested price is 37.50 in a standard economy
ShelfNext ==
  \/ day = 1 /\ ShelfSetup
  \/ \E quantity \in {0, 1} :
       InStores(player.stores, 16) < ShelfStock /\ BuyInventory(16, quantity)
  \/ SetRetailPrice(16, Mill(30))
  \/ TransferToStore(16, 1, 0)
  \/ day <= ShelfDays /\ AdvanceDay

SpecShelf == Init /\ [][ShelfNext]_vars

\* the lines that the stores after have and the stores before had not
NewLines(before, after) ==
  {<<i, p>> \in (DOMAIN after) \X ProductIds :
     /\ p \in DOMAIN after[i].inventory
     /\ ~(i \in DOMAIN before /\ p \in DOMAIN before[i].inventory)}

\* C37: a purchase, a transfer by hand or a tick never changes the retail_price of a line
\* that exists, also when the line holds 0 units: a purchase and a transfer by hand add
\* their quantity to it and change nothing else; the suggested price with the 50% markup is
\* given to a line only when the line is created
C37_PriceKept ==
  [][ret'.op \in {"buy_inventory", "transfer_to_store", "advance_day"} =>
       /\ \A i \in DOMAIN player.stores : \A p \in DOMAIN player.stores[i].inventory :
            /\ p \in DOMAIN player'.stores[i].inventory
            /\ player'.stores[i].inventory[p].retail_price
                 = player.stores[i].inventory[p].retail_price
            /\ player'.stores[i].inventory[p].product_id = p
            /\ (ret'.op # "advance_day" /\ ret'.ok) =>
                 player'.stores[i].inventory[p].quantity
                   = player.stores[i].inventory[p].quantity
                       + (IF p = ret'.args[1]
                             /\ i = (IF ret'.op = "buy_inventory" THEN current_store
                                     ELSE ret'.args[3]) + 1
                          THEN ret'.value \div (IF ret'.op = "buy_inventory"
                                                THEN get_wholesale_price(market.economic_state, p)[1]
                                                ELSE 1)
                          ELSE 0)
       /\ \A line \in NewLines(player.stores, player'.stores) :
            player'.stores[line[1]].inventory[line[2]].retail_price
              = suggest_retail_price(
                  IF ret'.op = "buy_inventory"
                  THEN get_wholesale_price(market.economic_state, line[2])[1]
                  ELSE Products[line[2]].base_price,
                  50)
    ]_vars

\* chairs came by the automatic transfer onto a line that the player had priced at 30.00
\* and that held no chair when they came: the line holds what was transferred, at 30.00
C37_Witness ==
  /\ ret.op = "advance_day"
  /\ Len(result.auto_transfers) = 1
  /\ result.auto_transfers[1][3] = 16
  /\ 16 \in DOMAIN player.stores[1].inventory
  /\ player.stores[1].inventory[16].quantity = result.auto_transfers[1][4]
  /\ player.stores[1].inventory[16].retail_price = Mill(30)

-----------------------------------------------------------------------------
(* Deliveries: chairs that the automatic transfer brings to a shelf that is *)
(* priced to sell                                                           *)

\* ticks of the days of the deliveries
DeliveryDays == 4

\* the factory is set up and production is started while day <= DeliverySetupDays
DeliverySetupDays == 2

\* the shelf for the chairs is made by a purchase of 0 chairs and priced at 15.00
DeliverySetup ==
  \/ TakeFlexibleLoan(MAX_LOAN)
  \/ BuyNewFactory
  \/ BuyRawMaterials(11, 4)
  \/ StartProduction(1)
  \/ ConnectFactoryToStore(0)
  \/ ToggleFactoryAutoTransfer
  \/ BuyInventory(16, 0)
  \/ SetRetailPrice(16, Mill(15))

DeliveryNext ==
  \/ day <= DeliverySetupDays /\ DeliverySetup
  \/ day <= DeliveryDays /\ AdvanceDay

SpecDelivery == Init /\ [][DeliveryNext]_vars

\* what the store at position sidx would sell of a product on the day of the report res
\* with the shelves it has now
DemandNow(sidx, product_id, res) ==
  calculate_sales(Products[product_id],
                  player.stores[sidx].inventory[product_id].retail_price,
                  player.stores[sidx].inventory[product_id].quantity,
                  (effective_customers(player.stores[sidx])
                     * player_customer_multiplier(res.player_market_share)[1])
                    \div player_customer_multiplier(res.player_market_share)[2],
                  res.economic_state, seed_of_day(day - 1))

\* C38: the goods that the automatic transfer moves into a store during an advance_day are
\* not sold in that tick: the units sold are those that the shelves as they were before the
\* tick sell, no product sells more than the stores held of it before the tick, and what
\* was transferred is on the shelf after the tick
C38_SalesBeforeTransfers ==
  [][(ret'.op = "advance_day" /\ day' = day + 1) =>
       /\ \A orders \in TickOrders(player) :
            result'.total_items_sold =
              UnitsSold(Game, orders.stores,
                        player_customer_multiplier(result'.player_market_share),
                        market'.economic_state)
       /\ \A product_id \in ProductIds :
            SoldOf(result'.sales_by_product, product_id) <= InStores(player.stores, product_id)
       /\ \A k \in DOMAIN result'.auto_transfers :
            LET sidx       == store_position(player'.stores, result'.auto_transfers[k][2])
                product_id == result'.auto_transfers[k][3]
            IN  /\ sidx # 0
                /\ product_id \in DOMAIN player'.stores[sidx].inventory
                /\ player'.stores[sidx].inventory[product_id].quantity
                     >= result'.auto_transfers[k][4]
    ]_vars

\* chairs came by the automatic transfer onto an empty shelf on a day on which the store
\* had a buyer for a chair at its price: none was sold that day and all are on the shelf
C38_Witness ==
  /\ ret.op = "advance_day"
  /\ Len(result.auto_transfers) = 1
  /\ result.auto_transfers[1][3] = 16
  /\ result.total_items_sold = 0
  /\ 16 \in DOMAIN player.stores[1].inventory
  /\ player.stores[1].inventory[16].quantity = result.auto_transfers[1][4]
  /\ DemandNow(1, 16, result) > 0

====
